---------------------------- MODULE Spec2Model ----------------------------
(***************************************************************************)
(* A model of the path-generation core of the AI learning path generator   *)
(* (path_engine.py, user_profile.py): the skill tree and its prerequisite  *)
(* walk, the resource fetcher and its cache, the path assembler and the    *)
(* path analytics.                                                         *)
(*                                                                         *)
(* Numbers.  Python floats are modelled exactly: a rating is kept in       *)
(* tenths (4.5 -> 45), a cost in cents (89.99 -> 8999), and a score that   *)
(* is a quotient is kept as a fraction [n |-> numerator, d |-> denominator]*)
(* with d > 0.                                                             *)
(*                                                                         *)
(* Strings are TLA+ strings; lower(), substring search, replace() and      *)
(* f-string formatting are computed character by character.                *)
(***************************************************************************)
EXTENDS Integers, Sequences, FiniteSets, TLC

VARIABLES
    pc,               \* the position of the driving caller: "start", or the last operation that returned
    goal_skill,       \* SkillTree.get_learning_path_for_goal: argument
    current_skills,   \* SkillTree.get_learning_path_for_goal: argument (list of skill names)
    skill_path,       \* SkillTree.get_learning_path_for_goal: returned list of module names
    openai_api_key,   \* ResourceFetcher.openai_api_key (None when not configured)
    cache,            \* ResourceFetcher.cache: cache key -> list of resource descriptors
    fetches,          \* the fetch_resources calls made so far, in order: arguments,
                      \* returned list and the generation stages each one invoked
    caller_profile,   \* the caller's UserProfile
    caller_goal,      \* the caller's LearningGoal, the argument of generate_learning_path
    learning_path,    \* the LearningPath the caller holds, as an Optional
    analytics,        \* the get_path_analytics calls made on that path, in order:
                      \* the path as it was given and the dictionary returned
    paths,            \* the list generate_multiple_paths returned, as an Optional
    profile_request,  \* the arguments of a non-interactive get_user_profile call
    profile_result,   \* its outcome: ValueError raised, or the UserProfile returned
    failed_goals,     \* generate_multiple_paths: the positions of the goals whose
                      \* generate_learning_path call raised in the last call
    engine_skill_trees,  \* PathEngine.skill_tree.skill_trees
    engine_resource_db,  \* PathEngine.resource_db
    rank_request,     \* the candidate list and the topic handed to the ranking of fetch_resources
    rank_result,      \* the list that ranking and truncation gave
    readiness_request,  \* the arguments of a calculate_readiness_score call
    readiness_result,   \* the score it returned
    priority_request,   \* the arguments of a _calculate_resource_priority call
    priority_result     \* the score it returned

treeVars == <<goal_skill, current_skills, skill_path>>

fetcherVars == <<openai_api_key, cache>>

callerVars == <<caller_profile, caller_goal, profile_request, profile_result>>

tableVars == <<engine_skill_trees, engine_resource_db>>

engineVars == <<callerVars, learning_path, analytics, paths, failed_goals, tableVars>>

unitVars == <<rank_request, rank_result, readiness_request, readiness_result,
              priority_request, priority_result>>

vars == <<pc, treeVars, fetcherVars, fetches, engineVars, unitVars>>

---------------------------------------------------------------------------
(* Python built-ins on strings and lists.                                  *)

None == "<None>"

AsciiUpper == "ABCDEFGHIJKLMNOPQRSTUVWXYZ"

AsciiLower == "abcdefghijklmnopqrstuvwxyz"

\* upper-case letter -> lower-case letter
LowerTable ==
    [c \in {SubSeq(AsciiUpper, i, i) : i \in 1..Len(AsciiUpper)} |->
        LET i == CHOOSE i \in 1..Len(AsciiUpper) : SubSeq(AsciiUpper, i, i) = c
        IN  SubSeq(AsciiLower, i, i)]

\* the position of the first character of s that is in chars, 0 when none
FirstOf(s, chars) ==
    LET at == {i \in 1..Len(s) : SubSeq(s, i, i) \in chars}
    IN  IF at = {} THEN 0 ELSE CHOOSE i \in at : \A j \in at : i <= j

RECURSIVE LowerOf(_)
\* str.lower(): every upper-case letter replaced by its lower-case letter
LowerOf(s) ==
    LET i == FirstOf(s, DOMAIN LowerTable)
    IN  IF i = 0 THEN s
        ELSE SubSeq(s, 1, i - 1) \o LowerTable[SubSeq(s, i, i)]
                 \o LowerOf(SubSeq(s, i + 1, Len(s)))

\* The strings with upper-case letters of the static tables (skill trees,
\* curated and built-in resources, skill names); their lower-case forms are
\* computed once.
StaticStrings ==
    {"APIs", "AWS Basics", "Advanced Analytics", "Advanced Frontend",
     "Advanced ML", "Advanced Security", "Angular",
     "Automate the Boring Stuff with Python", "Azure Basics", "Backend",
     "Backend Development", "CI/CD", "CSS", "Cloud Architecture",
     "Cloud Basics", "Cloud Computing", "Cloud Platforms",
     "Cloud Security", "CloudFormation",
     "Complete Python programming course from University of Michigan",
     "Complete React Developer Course",
     "Complete SQL guide for data professionals",
     "Complete machine learning course with practical projects",
     "Compliance", "Comprehensive deep learning course by Andrew Ng",
     "Comprehensive introduction to machine learning", "Computer Vision",
     "Container Management", "Container Orchestration", "Coursera",
     "DOM Manipulation", "Data Analysis", "Data Analysis Basics",
     "Data Science", "Data Visualization", "Data Warehousing",
     "Data wrangling with Pandas, NumPy, and IPython", "Database Design",
     "Deep Learning", "Deep Learning Specialization", "DevOps", "Docker",
     "Exploratory Data Analysis with Pandas", "Free Book", "Frontend",
     "Frontend Frameworks", "Full Stack", "Full Stack Development",
     "GitHub", "HTML", "HTML/CSS Fundamentals",
     "Hands-On Machine Learning",
     "Hands-on project for data analysis skills", "IAM", "Infrastructure",
     "Infrastructure as Code", "JavaScript", "JavaScript Basics",
     "JavaScript: The Complete Guide", "Juggling", "Kubernetes",
     "Learn Python programming fundamentals",
     "Learn React from basics to advanced concepts", "ML Engineering",
     "MLOps", "Machine Learning",
     "Machine Learning A-Z: Hands-On Python & R",
     "Machine Learning Basics", "Machine Learning Course by Andrew Ng",
     "Master JavaScript from beginner to advanced", "Matplotlib",
     "Microservices", "Model Deployment", "MongoDB", "NLP",
     "Neural Networks", "Node.js", "NumPy", "O'Reilly", "Pandas",
     "Practical Python programming for total beginners",
     "Practical machine learning with Python and Scikit-learn",
     "Probability", "Production ML", "Programming Basics",
     "Programming fundamentals", "PyTorch", "Python", "Python Flask",
     "Python Fundamentals", "Python for Data Analysis",
     "Python for Everybody Specialization", "Quantum Basket Weaving",
     "React", "Responsive Design", "SQL", "SQL Tutorial for Data Analysis",
     "Scikit-learn", "Seaborn", "Security Best Practices", "Service Mesh",
     "Site Reliability", "Statistics", "Statistics Fundamentals",
     "System Architecture", "TensorFlow", "Terraform", "Udemy", "Vue.js",
     "Web Design", "Web Development"}

LowerStatic == [s \in StaticStrings |-> LowerOf(s)]

\* str.lower()
lower(s) == IF s \in StaticStrings THEN LowerStatic[s] ELSE LowerOf(s)

RECURSIVE replace(_, _, _)
\* str.replace(old, new) for a one-character old
replace(s, old, new) ==
    LET i == FirstOf(s, {old})
    IN  IF i = 0 THEN s
        ELSE SubSeq(s, 1, i - 1) \o new \o replace(SubSeq(s, i + 1, Len(s)), old, new)

\* sub in s, for strings
Contains(sub, s) ==
    \E i \in 1..(Len(s) - Len(sub) + 1) : SubSeq(s, i, i + Len(sub) - 1) = sub

\* dict.get(key, default)
get(d, key, default) == IF key \in DOMAIN d THEN d[key] ELSE default

\* x in list
In(x, list) == \E i \in 1..Len(list) : list[i] = x

Range(list) == {list[i] : i \in 1..Len(list)}

Min(a, b) == IF a <= b THEN a ELSE b

Max(a, b) == IF a >= b THEN a ELSE b

RECURSIVE SumSeq(_)
\* sum(list)
SumSeq(list) == IF list = <<>> THEN 0 ELSE Head(list) + SumSeq(Tail(list))

RECURSIVE SeqsUpTo(_, _)
\* every list of at most n elements of S
SeqsUpTo(S, n) ==
    IF n = 0 THEN {<<>>}
    ELSE LET shorter == SeqsUpTo(S, n - 1)
         IN  shorter \cup {Append(q, x) : q \in shorter, x \in S}

---------------------------------------------------------------------------
(* SkillTree.__init__: the three domain trees, in dictionary order.        *)

Node(name, skills, prerequisites, next) ==
    [name |-> name, skills |-> skills, prerequisites |-> prerequisites, next |-> next]

skill_trees ==
    << [tree |-> "Data Science", modules |-> <<
          Node("Python Fundamentals", <<"Python", "Programming Basics">>, <<>>,
               <<"Data Analysis Basics", "Statistics Fundamentals">>),
          Node("Statistics Fundamentals", <<"Statistics", "Probability">>, <<>>,
               <<"Data Analysis Basics">>),
          Node("Data Analysis Basics", <<"Data Analysis", "Pandas", "NumPy">>,
               <<"Python Fundamentals">>,
               <<"Data Visualization", "Machine Learning Basics">>),
          Node("Data Visualization", <<"Data Visualization", "Matplotlib", "Seaborn">>,
               <<"Data Analysis Basics">>,
               <<"Machine Learning Basics", "Advanced Analytics">>),
          Node("Machine Learning Basics", <<"Machine Learning", "Scikit-learn">>,
               <<"Data Analysis Basics", "Statistics Fundamentals">>,
               <<"Deep Learning", "MLOps", "Advanced ML">>),
          Node("Deep Learning",
               <<"Deep Learning", "Neural Networks", "TensorFlow", "PyTorch">>,
               <<"Machine Learning Basics">>,
               <<"Computer Vision", "NLP", "ML Engineering">>),
          Node("MLOps", <<"MLOps", "Model Deployment", "Docker", "Cloud Platforms">>,
               <<"Machine Learning Basics">>,
               <<"ML Engineering", "Production ML">>) >>],
       [tree |-> "Web Development", modules |-> <<
          Node("HTML/CSS Fundamentals", <<"HTML", "CSS", "Web Design">>, <<>>,
               <<"JavaScript Basics", "Responsive Design">>),
          Node("JavaScript Basics", <<"JavaScript", "DOM Manipulation">>,
               <<"HTML/CSS Fundamentals">>,
               <<"Frontend Frameworks", "Backend Development">>),
          Node("Frontend Frameworks", <<"React", "Vue.js", "Angular">>,
               <<"JavaScript Basics">>,
               <<"Full Stack Development", "Advanced Frontend">>),
          Node("Backend Development", <<"Node.js", "Python Flask", "APIs">>,
               <<"JavaScript Basics">>,
               <<"Database Design", "Full Stack Development">>),
          Node("Database Design", <<"SQL", "Database Design", "MongoDB">>,
               <<"Backend Development">>,
               <<"Full Stack Development", "DevOps">>),
          Node("Full Stack Development", <<"Full Stack", "System Architecture">>,
               <<"Frontend Frameworks", "Backend Development", "Database Design">>,
               <<"DevOps", "Microservices">>),
          Node("DevOps", <<"DevOps", "CI/CD", "Docker", "Kubernetes">>,
               <<"Full Stack Development">>,
               <<"Cloud Architecture", "Site Reliability">>) >>],
       [tree |-> "Cloud Computing", modules |-> <<
          Node("Cloud Basics", <<"Cloud Computing", "AWS Basics", "Azure Basics">>, <<>>,
               <<"Infrastructure as Code", "Cloud Security">>),
          Node("Infrastructure as Code", <<"Terraform", "CloudFormation", "Infrastructure">>,
               <<"Cloud Basics">>,
               <<"Container Orchestration", "Cloud Architecture">>),
          Node("Container Orchestration", <<"Docker", "Kubernetes", "Container Management">>,
               <<"Cloud Basics">>,
               <<"Microservices", "Service Mesh">>),
          Node("Cloud Security", <<"Cloud Security", "IAM", "Security Best Practices">>,
               <<"Cloud Basics">>,
               <<"Advanced Security", "Compliance">>) >>] >>

\* self.skill_trees[tree_name]: the modules of one tree, in dictionary order
TreeModules(trees, tree_name) ==
    LET i == CHOOSE i \in 1..Len(trees) : trees[i].tree = tree_name
    IN  trees[i].modules

\* module_name in tree
InTree(tree, module_name) == \E i \in 1..Len(tree) : tree[i].name = module_name

\* tree[module_name]
ModuleInfo(tree, module_name) ==
    tree[CHOOSE i \in 1..Len(tree) : tree[i].name = module_name]

---------------------------------------------------------------------------
(* SkillTree._build_path_to_module and SkillTree.get_learning_path_for_goal *)

RECURSIVE add_prerequisites(_, _, _, _)
RECURSIVE add_prerequisites_each(_, _, _, _)

\* the for loop of add_prerequisites over module_info.get("prerequisites",
\* []); an exception raised in a call ends it
add_prerequisites_each(tree, prereqs, skills, st) ==
    IF prereqs = <<>> \/ st.raised THEN st
    ELSE add_prerequisites_each(tree, Tail(prereqs), skills,
                                add_prerequisites(tree, Head(prereqs), skills, st))

\* add_prerequisites with the module appended before its prerequisites are
\* visited.
add_prerequisites_preorder(tree, module_name, skills, st) ==
    IF module_name \in st.visited \/ ~InTree(tree, module_name) THEN st
    ELSE LET st1 == [st EXCEPT !.visited = @ \cup {module_name}]
             module_info == ModuleInfo(tree, module_name)
             has_skills == \E i \in 1..Len(module_info.skills) :
                               In(module_info.skills[i], skills)
         IN  IF has_skills THEN st1
             ELSE add_prerequisites_each(tree, module_info.prerequisites, skills,
                                         [st1 EXCEPT !.path = Append(@, module_name)])

\* add_prerequisites with all() in place of any(): a module is skipped only
\* when the user has every skill it teaches.
add_prerequisites_all(tree, module_name, skills, st) ==
    IF module_name \in st.visited \/ ~InTree(tree, module_name) THEN st
    ELSE LET st1 == [st EXCEPT !.visited = @ \cup {module_name}]
             module_info == ModuleInfo(tree, module_name)
             has_skills == \A i \in 1..Len(module_info.skills) :
                               In(module_info.skills[i], skills)
         IN  IF has_skills THEN st1
             ELSE LET st2 == add_prerequisites_each(tree, module_info.prerequisites,
                                                    skills, st1)
                  IN  IF In(module_name, st2.path) THEN st2
                      ELSE [st2 EXCEPT !.path = Append(@, module_name)]

\* add_prerequisites guarding against the modules of the current chain of
\* calls only, and appending without looking at path
add_prerequisites_onstack(tree, module_name, skills, st) ==
    IF module_name \in st.visited \/ ~InTree(tree, module_name)
    THEN [st EXCEPT !.calls = @ + 1]
    ELSE LET st1 == [st EXCEPT !.visited = @ \cup {module_name}, !.calls = @ + 1]
             module_info == ModuleInfo(tree, module_name)
             has_skills == \E i \in 1..Len(module_info.skills) :
                               In(module_info.skills[i], skills)
             Appended(st2) ==
                 [st2 EXCEPT !.path = Append(@, module_name), !.visited = st.visited]
         IN  IF "skills" \notin DOMAIN module_info THEN [st1 EXCEPT !.raised = TRUE]
             ELSE IF has_skills THEN [st1 EXCEPT !.visited = st.visited]
             ELSE Appended(add_prerequisites_each(
                               tree, get(module_info, "prerequisites", <<>>), skills, st1))

\* add_prerequisites leaving out a module whose skill the user has, but
\* still visiting that module's prerequisites
add_prerequisites_through(tree, module_name, skills, st) ==
    IF module_name \in st.visited \/ ~InTree(tree, module_name)
    THEN [st EXCEPT !.calls = @ + 1]
    ELSE LET st1 == [st EXCEPT !.visited = @ \cup {module_name}, !.calls = @ + 1]
             module_info == ModuleInfo(tree, module_name)
             has_skills == \E i \in 1..Len(module_info.skills) :
                               In(module_info.skills[i], skills)
             Appended(st2) ==
                 IF st2.raised \/ has_skills \/ In(module_name, st2.path) THEN st2
                 ELSE [st2 EXCEPT !.path = Append(@, module_name)]
         IN  IF "skills" \notin DOMAIN module_info THEN [st1 EXCEPT !.raised = TRUE]
             ELSE Appended(add_prerequisites_each(
                               tree, get(module_info, "prerequisites", <<>>), skills, st1))

\* The closure add_prerequisites; st.visited and st.path are the enclosing
\* function's locals it updates, st.calls counts its invocations, and
\* st.raised tells that module_info["skills"] raised KeyError, which ends
\* the walk.
add_prerequisites(tree, module_name, skills, st) ==
    IF module_name \in st.visited \/ ~InTree(tree, module_name)
    THEN [st EXCEPT !.calls = @ + 1]
    ELSE LET st1 == [st EXCEPT !.visited = @ \cup {module_name}, !.calls = @ + 1]
             module_info == ModuleInfo(tree, module_name)
             has_skills == \E i \in 1..Len(module_info.skills) :
                               In(module_info.skills[i], skills)
             Appended(st2) ==
                 IF st2.raised \/ In(module_name, st2.path) THEN st2
                 ELSE [st2 EXCEPT !.path = Append(@, module_name)]
         IN  IF "skills" \notin DOMAIN module_info THEN [st1 EXCEPT !.raised = TRUE]
             ELSE IF has_skills THEN st1
             ELSE Appended(add_prerequisites_each(
                               tree, get(module_info, "prerequisites", <<>>), skills, st1))

\* visited = set(), path = []
WalkStart == [visited |-> {}, path |-> <<>>, raised |-> FALSE, calls |-> 0]

\* _build_path_to_module returning the path built so far when the walk
\* raises
_build_path_to_module_partial(trees, tree_name, target_module, skills) ==
    LET Built(st) == IF st.path # <<>> THEN st.path ELSE <<target_module>>
    IN  Built(add_prerequisites(TreeModules(trees, tree_name), target_module, skills,
                                WalkStart))

\* SkillTree._build_path_to_module; the except clause returns
\* [target_module]
_build_path_to_module(trees, tree_name, target_module, skills) ==
    LET Built(st) ==
            IF st.raised THEN <<target_module>>
            ELSE IF st.path # <<>> THEN st.path ELSE <<target_module>>
    IN  Built(add_prerequisites(TreeModules(trees, tree_name), target_module, skills,
                                WalkStart))

\* module_info["skills"] of a module without that key
KeyError == "<KeyError>"

\* The two nested for loops with break: the first (tree, module) in
\* enumeration order whose skills hold goal, as [tree, module], or None, or
\* KeyError when a module met before has no "skills".
RECURSIVE FindInModules(_, _, _)
\* FindInModules matching the skill name without regard to case
FindInModules_nocase(modules, goal, i) ==
    IF i > Len(modules) THEN None
    ELSE IF \E k \in 1..Len(modules[i].skills) : lower(modules[i].skills[k]) = lower(goal)
         THEN modules[i].name
    ELSE FindInModules(modules, goal, i + 1)

FindInModules(modules, goal, i) ==
    IF i > Len(modules) THEN None
    ELSE IF "skills" \notin DOMAIN modules[i] THEN KeyError
    ELSE IF In(goal, modules[i].skills) THEN modules[i].name
    ELSE FindInModules(modules, goal, i + 1)

\* the search loops keeping the last match instead of breaking at the first
RECURSIVE FindTarget_last(_, _, _)
FindTarget_last(trees, goal, t) ==
    IF t > Len(trees) THEN [tree |-> None, module |-> None]
    ELSE LET Later(rest) ==
                 IF rest.tree # None THEN rest
                 ELSE LET matching == {i \in 1..Len(trees[t].modules) :
                                           In(goal, trees[t].modules[i].skills)}
                      IN  IF matching = {} THEN rest
                          ELSE [tree |-> trees[t].tree,
                                module |-> trees[t].modules[
                                    CHOOSE i \in matching : \A k \in matching : k <= i].name]
         IN  Later(FindTarget_last(trees, goal, t + 1))

RECURSIVE FindTarget(_, _, _)
FindTarget(trees, goal, t) ==
    IF t > Len(trees) THEN [tree |-> None, module |-> None]
    ELSE LET m == FindInModules(trees[t].modules, goal, 1)
         IN  IF m = KeyError THEN [tree |-> KeyError, module |-> None]
             ELSE IF m # None THEN [tree |-> trees[t].tree, module |-> m]
             ELSE FindTarget(trees, goal, t + 1)

\* the lookup with no custom path: an unknown goal gives the empty list
get_learning_path_for_goal_nocustom(trees, goal, skills) ==
    LET target == FindTarget(trees, goal, 1)
    IN  IF target.tree = None
        THEN <<>>
        ELSE _build_path_to_module(trees, target.tree, target.module, skills)

\* SkillTree.get_learning_path_for_goal; the except clause returns
\* [f"Basic {goal_skill} Learning"]
get_learning_path_for_goal(trees, goal, skills) ==
    LET target == FindTarget(trees, goal, 1)
    IN  IF target.tree = KeyError
        THEN <<"Basic " \o goal \o " Learning">>
        ELSE IF target.tree = None
        THEN <<"Custom Learning Path for " \o goal>>
        ELSE _build_path_to_module(trees, target.tree, target.module, skills)

---------------------------------------------------------------------------
(* ResourceFetcher.  A resource descriptor is the dictionary the fetcher    *)
(* builds; rating is in tenths.                                             *)

ResourceDict(title, description, url, provider, type, difficulty, rating, estimated_hours) ==
    [title |-> title, description |-> description, url |-> url, provider |-> provider,
     type |-> type, difficulty |-> difficulty, rating |-> rating,
     estimated_hours |-> estimated_hours]

\* curated_db.get(topic, [])
curated_db(topic) ==
    CASE topic = "Python" ->
           << ResourceDict("Python for Everybody Specialization",
                  "Complete Python programming course from University of Michigan",
                  "https://www.coursera.org/specializations/python",
                  "Coursera", "course", "beginner", 48, 60),
              ResourceDict("Automate the Boring Stuff with Python",
                  "Practical Python programming for total beginners",
                  "https://automatetheboringstuff.com/",
                  "Free Book", "book", "beginner", 47, 40) >>
      [] topic = "Machine Learning" ->
           << ResourceDict("Machine Learning Course by Andrew Ng",
                  "Comprehensive introduction to machine learning",
                  "https://www.coursera.org/learn/machine-learning",
                  "Coursera", "course", "intermediate", 49, 60),
              ResourceDict("Hands-On Machine Learning",
                  "Practical machine learning with Python and Scikit-learn",
                  "https://github.com/ageron/handson-ml2",
                  "GitHub", "tutorial", "intermediate", 48, 80) >>
      [] topic = "Data Analysis" ->
           << ResourceDict("Python for Data Analysis",
                  "Data wrangling with Pandas, NumPy, and IPython",
                  "https://wesmckinney.com/pages/book.html",
                  "O'Reilly", "book", "intermediate", 46, 50) >>
      [] OTHER -> <<>>

RECURSIVE FilterByDifficulty(_, _)
\* [r for r in topic_resources if r["difficulty"] == difficulty or difficulty == "mixed"]
FilterByDifficulty(list, difficulty) ==
    IF list = <<>> THEN <<>>
    ELSE LET rest == FilterByDifficulty(Tail(list), difficulty)
         IN  IF Head(list).difficulty = difficulty \/ difficulty = "mixed"
             THEN <<Head(list)>> \o rest
             ELSE rest

_get_curated_resources(topic, difficulty) ==
    FilterByDifficulty(curated_db(topic), difficulty)

_scrape_resources(topic, difficulty) ==
    << ResourceDict("Complete " \o topic \o " Tutorial",
           "Comprehensive " \o topic \o " learning resource",
           "https://example.com/" \o replace(lower(topic), " ", "-"),
           "Educational Platform", "tutorial", difficulty, 45, 30) >>

_get_ai_resources(topic, difficulty) ==
    << ResourceDict("AI-Recommended " \o topic \o " Course",
           "AI-curated learning path for " \o topic,
           "https://ai-learning.com/" \o lower(topic),
           "AI Learning Platform", "course", difficulty, 44, 25) >>

\* a fallback list of the first entry only
_get_fallback_resources_single(topic) ==
    << ResourceDict("Learn " \o topic \o " - Getting Started",
           "Basic introduction to " \o topic,
           "https://www.google.com/search?q=learn+" \o replace(topic, " ", "+"),
           "Web Search", "mixed", "beginner", 40, 20) >>

\* ResourceFetcher._get_fallback_resources
_get_fallback_resources(topic) ==
    << ResourceDict("Learn " \o topic \o " - Getting Started",
           "Basic introduction to " \o topic,
           "https://www.google.com/search?q=learn+" \o replace(topic, " ", "+"),
           "Web Search", "mixed", "beginner", 40, 20),
       ResourceDict(topic \o " Documentation",
           "Official documentation and guides for " \o topic,
           "https://docs.python.org/3/",
           "Official Docs", "documentation", "intermediate", 42, 15) >>

RECURSIVE UniqueByUrl(_, _)
\* the seen_urls loop: the first resource of every url, in order
UniqueByUrl(list, seen_urls) ==
    IF list = <<>> THEN <<>>
    ELSE IF Head(list).url \in seen_urls THEN UniqueByUrl(Tail(list), seen_urls)
    ELSE <<Head(list)>> \o UniqueByUrl(Tail(list), seen_urls \cup {Head(list).url})

\* score of one resource, in hundredths: rating * 0.7, + 1.0, + 0.5
RankScore(resource, topic) ==
    resource.rating * 7
        + (IF Contains(lower(topic), lower(resource.title)) THEN 100 ELSE 0)
        + (IF Contains(lower(topic), lower(resource.description)) THEN 50 ELSE 0)

RECURSIVE InsertByScore_ascending(_, _)
\* the sort without reverse=True
InsertByScore_ascending(sorted, x) ==
    IF sorted = <<>> THEN <<x>>
    ELSE IF Head(sorted).score <= x.score
         THEN <<Head(sorted)>> \o InsertByScore_ascending(Tail(sorted), x)
    ELSE <<x>> \o sorted

RECURSIVE InsertByScore(_, _)
\* insert into a list sorted by descending score, after the entries of an
\* equal score (list.sort is stable)
InsertByScore(sorted, x) ==
    IF sorted = <<>> THEN <<x>>
    ELSE IF Head(sorted).score >= x.score THEN <<Head(sorted)>> \o InsertByScore(Tail(sorted), x)
    ELSE <<x>> \o sorted

RECURSIVE SortByScore(_, _)
\* scored_resources.sort(key=lambda x: x[0], reverse=True)
SortByScore(scored, sorted) ==
    IF scored = <<>> THEN sorted
    ELSE SortByScore(Tail(scored), InsertByScore(sorted, Head(scored)))

_rank_and_filter_resources(resources, topic) ==
    LET unique_resources == UniqueByUrl(resources, {})
        scored_resources ==
            [i \in 1..Len(unique_resources) |->
                [score |-> RankScore(unique_resources[i], topic),
                 resource |-> unique_resources[i]]]
        sorted == SortByScore(scored_resources, <<>>)
    IN  [i \in 1..Len(sorted) |-> sorted[i].resource]

\* if self.openai_api_key
Truthy(s) == s # None /\ s # ""

\* list[:n]
Take(list, n) == SubSeq(list, 1, Min(n, Len(list)))

\* f"{topic}_{difficulty}_{resource_type}"
CacheKey(topic, difficulty, resource_type) ==
    topic \o "_" \o difficulty \o "_" \o resource_type

\* dict item assignment
DictSet(dict, key, value) ==
    [k \in DOMAIN dict \cup {key} |-> IF k = key THEN value ELSE dict[k]]

EmptyDict == [k \in {} |-> <<>>]

\* ResourceFetcher.fetch_resources with the cache never written
fetch_resources_nostore(api_key, cache_in, topic, difficulty, resource_type) ==
    LET cache_key == CacheKey(topic, difficulty, resource_type)
    IN  IF cache_key \in DOMAIN cache_in
        THEN [ret |-> cache_in[cache_key], cache |-> cache_in, stages |-> <<>>]
        ELSE LET curated == _get_curated_resources(topic, difficulty)
                 with_scraped == IF Len(curated) < 3
                                 THEN curated \o _scrape_resources(topic, difficulty)
                                 ELSE curated
                 with_ai == IF Len(with_scraped) < 3 /\ Truthy(api_key)
                            THEN with_scraped \o _get_ai_resources(topic, difficulty)
                            ELSE with_scraped
                 resources == Take(_rank_and_filter_resources(with_ai, topic), 3)
             IN  [ret |-> resources,
                  cache |-> cache_in,
                  stages |-> <<"curated">>
                             \o (IF Len(curated) < 3 THEN <<"scrape">> ELSE <<>>)
                             \o (IF Len(with_scraped) < 3 /\ Truthy(api_key)
                                 THEN <<"ai">> ELSE <<>>)
                             \o <<"rank">>]

\* fetch_resources engaging the AI stage whenever a key is configured,
\* whatever the number of candidates
fetch_resources_eager_ai(api_key, cache_in, topic, difficulty, resource_type) ==
    LET cache_key == CacheKey(topic, difficulty, resource_type)
        Finish(with_ai, scraped) ==
            LET Store(resources) ==
                    [ret |-> resources,
                     cache |-> DictSet(cache_in, cache_key, resources),
                     stages |-> <<"curated">>
                                \o (IF scraped THEN <<"scrape">> ELSE <<>>)
                                \o (IF Truthy(api_key) THEN <<"ai">> ELSE <<>>)
                                \o <<"rank">>]
            IN  Store(Take(_rank_and_filter_resources(with_ai, topic), 3))
        Generate(curated) ==
            LET with_scraped == IF Len(curated) < 3
                                THEN curated \o _scrape_resources(topic, difficulty)
                                ELSE curated
            IN  Finish(IF Truthy(api_key)
                       THEN with_scraped \o _get_ai_resources(topic, difficulty)
                       ELSE with_scraped,
                       Len(curated) < 3)
    IN  IF cache_key \in DOMAIN cache_in
        THEN [ret |-> cache_in[cache_key], cache |-> cache_in, stages |-> <<>>]
        ELSE Generate(_get_curated_resources(topic, difficulty))

\* ResourceFetcher.fetch_resources on a fetcher whose key is api_key and
\* whose cache is cache_in: the value returned, the cache afterwards and the
\* generation stages invoked, in order.
fetch_resources(api_key, cache_in, topic, difficulty, resource_type) ==
    LET cache_key == CacheKey(topic, difficulty, resource_type)
    IN  IF cache_key \in DOMAIN cache_in
        THEN [ret |-> cache_in[cache_key], cache |-> cache_in, stages |-> <<>>]
        ELSE LET curated == _get_curated_resources(topic, difficulty)
                 with_scraped == IF Len(curated) < 3
                                 THEN curated \o _scrape_resources(topic, difficulty)
                                 ELSE curated
                 with_ai == IF Len(with_scraped) < 3 /\ Truthy(api_key)
                            THEN with_scraped \o _get_ai_resources(topic, difficulty)
                            ELSE with_scraped
                 resources == Take(_rank_and_filter_resources(with_ai, topic), 3)
             IN  [ret |-> resources,
                  cache |-> DictSet(cache_in, cache_key, resources),
                  stages |-> <<"curated">>
                             \o (IF Len(curated) < 3 THEN <<"scrape">> ELSE <<>>)
                             \o (IF Len(with_scraped) < 3 /\ Truthy(api_key)
                                 THEN <<"ai">> ELSE <<>>)
                             \o <<"rank">>]

\* fetch_resources_failing with the fallback list written to the cache
fetch_resources_failing_storing(api_key, cache_in, topic, difficulty, resource_type, failing_stage) ==
    LET WithNormal(normal) ==
            IF In(failing_stage, normal.stages)
            THEN [ret |-> _get_fallback_resources(topic),
                  cache |-> DictSet(cache_in, CacheKey(topic, difficulty, resource_type),
                                    _get_fallback_resources(topic)),
                  stages |->
                      SubSeq(normal.stages, 1,
                             CHOOSE i \in 1..Len(normal.stages) :
                                 normal.stages[i] = failing_stage)
                          \o <<"except">>]
            ELSE normal
    IN  WithNormal(fetch_resources(api_key, cache_in, topic, difficulty, resource_type))

\* ResourceFetcher.fetch_resources when the stage failing_stage raises on
\* being invoked (a string topic makes none of them raise by itself): the
\* stages up to that one have run, the except clause returns the fallback
\* list and the cache is not written.  A call that does not invoke the
\* stage is not affected.
fetch_resources_failing(api_key, cache_in, topic, difficulty, resource_type, failing_stage) ==
    LET WithNormal(normal) ==
            IF In(failing_stage, normal.stages)
            THEN [ret |-> _get_fallback_resources(topic),
                  cache |-> cache_in,
                  stages |->
                      SubSeq(normal.stages, 1,
                             CHOOSE i \in 1..Len(normal.stages) :
                                 normal.stages[i] = failing_stage)
                          \o <<"except">>]
            ELSE normal
    IN  WithNormal(fetch_resources(api_key, cache_in, topic, difficulty, resource_type))

---------------------------------------------------------------------------
(* Exact arithmetic for the float-valued scores: a fraction is [n, d] with  *)
(* d > 0, kept in lowest terms, so that equal values are equal records.     *)

RECURSIVE GCD(_, _)
GCD(a, b) == IF b = 0 THEN a ELSE GCD(b, a % b)

Abs(x) == IF x < 0 THEN -x ELSE x

Frac(n, d) ==
    LET g == GCD(Abs(n), d)
    IN  [n |-> n \div g, d |-> d \div g]

\* a + b over the least common denominator
FracAdd(a, b) ==
    LET g == GCD(a.d, b.d)
    IN  Frac(a.n * (b.d \div g) + b.n * (a.d \div g), (a.d \div g) * b.d)

\* a / k for an integer k > 0
FracDivInt(a, k) == Frac(a.n, a.d * k)

RECURSIVE FracSum(_)
FracSum(list) == IF list = <<>> THEN Frac(0, 1) ELSE FracAdd(Head(list), FracSum(Tail(list)))

RECURSIVE FracCmp(_, _, _, _)
\* the sign of an/ad - bn/bd for an, bn >= 0 and ad, bd > 0, computed on
\* quotients and remainders so that no product is formed
FracCmp(an, ad, bn, bd) ==
    LET qa == an \div ad
        qb == bn \div bd
        ra == an % ad
        rb == bn % bd
    IN  IF qa # qb THEN (IF qa < qb THEN -1 ELSE 1)
        ELSE IF ra = 0 /\ rb = 0 THEN 0
        ELSE IF ra = 0 THEN -1
        ELSE IF rb = 0 THEN 1
        ELSE FracCmp(bd, rb, ad, ra)

\* a <= b, for fractions that are not negative
FracLeq(a, b) == FracCmp(a.n, a.d, b.n, b.d) <= 0

\* a < b, for fractions that are not negative
FracLess(a, b) == FracCmp(a.n, a.d, b.n, b.d) < 0

---------------------------------------------------------------------------
(* user_profile.py: SkillLevel is its value 1..4; an Optional value is the  *)
(* empty list for None and the one-element list of the value otherwise.     *)

SkillLevelNames == <<"BEGINNER", "INTERMEDIATE", "ADVANCED", "EXPERT">>

UserSkill(skill_name, level, years_experience, confidence_score) ==
    [skill_name |-> skill_name, level |-> level,
     years_experience |-> years_experience, confidence_score |-> confidence_score]

LearningGoal(goal_name, target_skill_level, priority, timeline_months) ==
    [goal_name |-> goal_name, target_skill_level |-> target_skill_level,
     priority |-> priority, timeline_months |-> timeline_months]

UserProfile(name, email, skills, goals, preferred_learning_style, time_commitment_hours_per_week, budget_usd) ==
    [name |-> name, email |-> email, current_skills |-> skills,
     learning_goals |-> goals,
     preferred_learning_style |-> preferred_learning_style,
     time_commitment_hours_per_week |-> time_commitment_hours_per_week,
     budget_usd |-> budget_usd]

\* SkillMapper._get_prerequisites
_get_prerequisites(skill) ==
    CASE skill = "Machine Learning" -> <<"Python", "Statistics", "Data Analysis">>
      [] skill = "Deep Learning" -> <<"Machine Learning", "Python", "Statistics">>
      [] skill = "Backend" -> <<"Programming fundamentals">>
      [] skill = "Full Stack" -> <<"Frontend", "Backend">>
      [] skill = "DevOps" -> <<"Backend", "Cloud Computing">>
      [] skill = "Kubernetes" -> <<"Docker", "Cloud Computing">>
      [] skill = "Data Warehousing" -> <<"SQL", "Database Design">>
      [] OTHER -> <<>>

RECURSIVE FindSkillFrom_last(_, _, _)
\* the loop of _find_user_skill without its return: the last match
FindSkillFrom_last(skills, lowered, i) ==
    IF i > Len(skills) THEN <<>>
    ELSE LET Later(rest) ==
                 IF rest # <<>> THEN rest
                 ELSE IF lower(skills[i].skill_name) = lowered THEN <<skills[i]>>
                 ELSE <<>>
         IN  Later(FindSkillFrom_last(skills, lowered, i + 1))

RECURSIVE FindSkillFrom(_, _, _)
\* the loop of _find_user_skill from position i: the first skill whose
\* lower-cased name is lowered, as an Optional
FindSkillFrom(skills, lowered, i) ==
    IF i > Len(skills) THEN <<>>
    ELSE IF lower(skills[i].skill_name) = lowered THEN <<skills[i]>>
    ELSE FindSkillFrom(skills, lowered, i + 1)

\* SkillMapper._find_user_skill
_find_user_skill(user_profile, skill_name) ==
    FindSkillFrom(user_profile.current_skills, lower(skill_name), 1)

\* the readiness of one prerequisite: (level/4 + confidence/10) / 2, or 0.0
PrerequisiteReadiness(user_profile, prereq) ==
    LET user_skill == _find_user_skill(user_profile, prereq)
    IN  IF user_skill # <<>>
        THEN Frac(5 * user_skill[1].level + 2 * user_skill[1].confidence_score, 40)
        ELSE Frac(0, 1)

\* SkillMapper.calculate_readiness_score
calculate_readiness_score(user_profile, target_skill) ==
    LET prerequisites == _get_prerequisites(target_skill)
        readiness_scores ==
            [i \in 1..Len(prerequisites) |->
                PrerequisiteReadiness(user_profile, prerequisites[i])]
    IN  IF prerequisites = <<>> THEN Frac(4, 5)
        ELSE FracDivInt(FracSum(readiness_scores), Len(readiness_scores))

---------------------------------------------------------------------------
(* path_engine.py: the data classes.  ResourceType is its value string,     *)
(* Difficulty its value 1..4; cost_usd is in cents, rating in tenths.  The  *)
(* tags of a resource are never read and are left out, and so is path_id,   *)
(* an identifier built from the clock.                                      *)

DifficultyNames == <<"BEGINNER", "INTERMEDIATE", "ADVANCED", "EXPERT">>

LearningResource(id, title, description, resource_type, difficulty, estimated_hours, skills_taught, prerequisites, cost_usd, rating, url, provider) ==
    [id |-> id, title |-> title, description |-> description,
     resource_type |-> resource_type, difficulty |-> difficulty,
     estimated_hours |-> estimated_hours, skills_taught |-> skills_taught,
     prerequisites |-> prerequisites, cost_usd |-> cost_usd, rating |-> rating,
     url |-> url, provider |-> provider]

LearningStep(step_number, resource, estimated_completion_weeks, priority_score, readiness_score, module_name, prerequisites_met) ==
    [step_number |-> step_number, resource |-> resource,
     estimated_completion_weeks |-> estimated_completion_weeks,
     priority_score |-> priority_score, readiness_score |-> readiness_score,
     module_name |-> module_name, prerequisites_met |-> prerequisites_met]

LearningModule(module_id, module_name, description, skills_taught, prerequisites, estimated_hours, steps, difficulty) ==
    [module_id |-> module_id, module_name |-> module_name,
     description |-> description, skills_taught |-> skills_taught,
     prerequisites |-> prerequisites, estimated_hours |-> estimated_hours,
     steps |-> steps, difficulty |-> difficulty]

LearningPath(user_id, goal, target_level, modules, total_estimated_hours, total_cost_usd, estimated_completion_months, confidence_score, skill_tree_path) ==
    [user_id |-> user_id, goal_skill |-> goal, target_level |-> target_level,
     modules |-> modules, total_estimated_hours |-> total_estimated_hours,
     total_cost_usd |-> total_cost_usd,
     estimated_completion_months |-> estimated_completion_months,
     confidence_score |-> confidence_score, skill_tree_path |-> skill_tree_path]

\* PathEngine._initialize_resource_database
resource_db ==
    << LearningResource("ml_course_1", "Machine Learning A-Z: Hands-On Python & R",
           "Complete machine learning course with practical projects",
           "course", 2, 40, <<"Machine Learning", "Python", "Data Analysis">>,
           <<"Python", "Statistics">>, 8999, 45, None, "Udemy"),
       LearningResource("python_basics", "Python for Everybody Specialization",
           "Learn Python programming fundamentals",
           "course", 1, 60, <<"Python">>, <<>>, 0, 48, None, "Coursera"),
       LearningResource("data_analysis_project", "Exploratory Data Analysis with Pandas",
           "Hands-on project for data analysis skills",
           "project", 2, 20, <<"Data Analysis", "Python">>, <<"Python">>, 0, 43, None, None),
       LearningResource("deep_learning_spec", "Deep Learning Specialization",
           "Comprehensive deep learning course by Andrew Ng",
           "course", 3, 120, <<"Deep Learning", "Machine Learning", "Python">>,
           <<"Machine Learning", "Python", "Statistics">>, 3999, 49, None, "Coursera"),
       LearningResource("sql_tutorial", "SQL Tutorial for Data Analysis",
           "Complete SQL guide for data professionals",
           "tutorial", 1, 25, <<"SQL", "Data Analysis">>, <<>>, 0, 44, None, None),
       LearningResource("react_course", "Complete React Developer Course",
           "Learn React from basics to advanced concepts",
           "course", 2, 45, <<"React", "JavaScript", "Frontend">>,
           <<"JavaScript", "HTML", "CSS">>, 6999, 46, None, "Udemy"),
       LearningResource("js_fundamentals", "JavaScript: The Complete Guide",
           "Master JavaScript from beginner to advanced",
           "course", 1, 50, <<"JavaScript", "Web Development">>,
           <<"HTML", "CSS">>, 4999, 47, None, "Udemy") >>

\* [f(x) for x in list]: lower-cased strings of a list
LowerAll(list) == [i \in 1..Len(list) |-> lower(list[i])]

RECURSIVE FilterRelevant(_, _, _)
\* the loop of _find_relevant_resources over a list of resources; skill is
\* already lower-cased
FilterRelevant(list, skill, target_level) ==
    IF list = <<>> THEN <<>>
    ELSE LET resource == Head(list)
             rest == FilterRelevant(Tail(list), skill, target_level)
         IN  IF In(skill, LowerAll(resource.skills_taught))
                  /\ resource.difficulty <= target_level + 1
             THEN <<resource>> \o rest
             ELSE rest

\* PathEngine._find_relevant_resources
_find_relevant_resources(skill, target_level) ==
    FilterRelevant(resource_db, lower(skill), target_level)

RECURSIVE FindModule(_, _, _)
\* the module record named module_name in the first tree, from tree t on,
\* that has one, as an Optional
FindModule(trees, module_name, t) ==
    IF t > Len(trees) THEN <<>>
    ELSE IF InTree(trees[t].modules, module_name)
         THEN <<ModuleInfo(trees[t].modules, module_name)>>
    ELSE FindModule(trees, module_name, t + 1)

\* PathEngine._get_module_skills
_get_module_skills(module_name) ==
    LET found == FindModule(skill_trees, module_name, 1)
    IN  IF found # <<>> THEN found[1].skills ELSE <<module_name>>

\* PathEngine._get_module_prerequisites
_get_module_prerequisites(module_name) ==
    LET found == FindModule(skill_trees, module_name, 1)
    IN  IF found # <<>> THEN found[1].prerequisites ELSE <<>>

\* type_mapping.get(type, ResourceType.TUTORIAL)
type_mapping(type) ==
    CASE type = "course" -> "course"
      [] type = "book" -> "book"
      [] type = "tutorial" -> "tutorial"
      [] type = "video" -> "video"
      [] type = "article" -> "article"
      [] type = "mixed" -> "tutorial"
      [] OTHER -> "tutorial"

\* difficulty_mapping.get(difficulty, Difficulty.INTERMEDIATE)
difficulty_mapping(difficulty) ==
    CASE difficulty = "beginner" -> 1
      [] difficulty = "intermediate" -> 2
      [] difficulty = "advanced" -> 3
      [] difficulty = "expert" -> 4
      [] OTHER -> 2

\* PathEngine._dict_to_learning_resource
_dict_to_learning_resource(resource_dict, resource_id) ==
    LearningResource(resource_id, resource_dict.title, resource_dict.description,
        type_mapping(resource_dict.type), difficulty_mapping(resource_dict.difficulty),
        resource_dict.estimated_hours, <<"General">>, <<>>, 0, resource_dict.rating,
        resource_dict.url, resource_dict.provider)

\* PathEngine._create_fallback_resource
_create_fallback_resource(resource_id) ==
    LearningResource(resource_id, "Basic Learning Resource",
        "Foundational learning material", "tutorial", 2, 20, <<"General Skills">>,
        <<>>, 0, 40, None, "Generic")

\* PathEngine._create_fallback_module
_create_fallback_module(module_name, module_number) ==
    LearningModule("fallback_module_" \o ToString(module_number), module_name,
        "Basic learning module for " \o module_name, <<module_name>>, <<>>, 20,
        << LearningStep(1, _create_fallback_resource("fallback_" \o ToString(module_number)),
                        2, Frac(3, 1), Frac(7, 10), module_name, TRUE) >>,
        2)

\* the database resources put before the fetched ones
_combine_resources_db_first(fetched, db_resources) == db_resources \o fetched

\* PathEngine._combine_resources
_combine_resources(fetched, db_resources) == fetched \o db_resources

\* PathEngine._determine_module_difficulty: the mean of the steps'
\* difficulty values against 1.5, 2.5 and 3.5
_determine_module_difficulty(steps) ==
    IF steps = <<>> THEN 2
    ELSE LET total == SumSeq([i \in 1..Len(steps) |-> steps[i].resource.difficulty])
             n == Len(steps)
         IN  IF 2 * total <= 3 * n THEN 1
             ELSE IF 2 * total <= 5 * n THEN 2
             ELSE IF 2 * total <= 7 * n THEN 3
             ELSE 4

\* type_scores.get(resource_type, 1), in tenths
type_scores(resource_type) ==
    CASE resource_type = "project" -> 30
      [] resource_type = "course" -> 20
      [] resource_type = "tutorial" -> 20
      [] resource_type = "video" -> 15
      [] resource_type = "certification" -> 10
      [] resource_type = "book" -> 10
      [] resource_type = "documentation" -> 5
      [] OTHER -> 10

\* the cost term without the budget branch
CostEfficiency_free_only(resource, user_profile) ==
    IF resource.cost_usd = 0 THEN Frac(3, 1) ELSE Frac(0, 1)

\* the cost term of the priority score; "elif user_profile.budget_usd" is
\* false for a budget of None and for a budget of 0
CostEfficiency(resource, user_profile) ==
    IF resource.cost_usd = 0 THEN Frac(3, 1)
    ELSE IF user_profile.budget_usd # <<>> /\ user_profile.budget_usd[1] # 0
    THEN LET budget == user_profile.budget_usd[1]
         IN  IF 3 * budget - 3 * resource.cost_usd > 0
             THEN Frac(3 * budget - 3 * resource.cost_usd, budget)
             ELSE Frac(0, 1)
    ELSE Frac(0, 1)

\* PathEngine._calculate_resource_priority.  A resource without a rating
\* (rating = None, which the dataclass admits) makes resource.rating * 2
\* raise, and the except clause returns 3.0.
_calculate_resource_priority(resource, user_profile, goal) ==
    LET level_diff == Abs(resource.difficulty - goal.target_skill_level)
        hours_per_week == user_profile.time_commitment_hours_per_week
    IN  IF "rating" \notin DOMAIN resource THEN Frac(3, 1)
        ELSE FracSum(<< Frac(resource.rating * 2, 10),
                        Frac(Max(0, 5 - level_diff), 1),
                        CostEfficiency(resource, user_profile),
                        Frac(IF resource.estimated_hours <= hours_per_week * 4
                             THEN 2 ELSE 0, 1),
                        Frac(type_scores(resource.resource_type), 10) >>)

\* PathEngine._check_prerequisites_met
_check_prerequisites_met(resource, user_profile) ==
    LET user_skills == {lower(user_profile.current_skills[i].skill_name) :
                            i \in 1..Len(user_profile.current_skills)}
    IN  \A i \in 1..Len(resource.prerequisites) :
            lower(resource.prerequisites[i]) \in user_skills

---------------------------------------------------------------------------
(* The path assembler.  An operation that calls the fetcher takes the       *)
(* fetcher's key and cache and returns, with its value, the cache it        *)
(* leaves.                                                                  *)

\* difficulty_map.get(goal.target_skill_level, "intermediate")
difficulty_map(level) ==
    CASE level = 1 -> "beginner"
      [] level = 2 -> "intermediate"
      [] level = 3 -> "advanced"
      [] level = 4 -> "expert"
      [] OTHER -> "intermediate"

RECURSIVE Join(_, _)
\* sep.join(list)
Join(list, sep) ==
    IF list = <<>> THEN ""
    ELSE IF Len(list) = 1 THEN list[1]
    ELSE list[1] \o sep \o Join(Tail(list), sep)

\* isinstance(resource_data, dict)
IsDict(resource_data) == "id" \notin DOMAIN resource_data

\* one iteration of the loop of _create_learning_module: the step built
\* from all_resources[i] (i counts from 0)
CreateStep(resource_data, i, module_name, primary_skill, goal, profile) ==
    LET StepOf(resource) ==
            LearningStep(i + 1, resource,
                Max(1, resource.estimated_hours \div profile.time_commitment_hours_per_week),
                _calculate_resource_priority(resource, profile, goal),
                calculate_readiness_score(profile, primary_skill),
                module_name,
                _check_prerequisites_met(resource, profile))
    IN  StepOf(IF IsDict(resource_data)
               THEN _dict_to_learning_resource(resource_data,
                                               module_name \o "_" \o ToString(i))
               ELSE resource_data)

\* a module's hours counted from its first step only
ModuleHours_first(steps) ==
    IF steps = <<>> THEN 0 ELSE steps[1].resource.estimated_hours

\* sum(step.resource.estimated_hours for step in steps)
ModuleHours(steps) ==
    SumSeq([i \in 1..Len(steps) |-> steps[i].resource.estimated_hours])

\* PathEngine._create_learning_module: [ret |-> the module, cache |-> the
\* fetcher's cache afterwards].  The floor division by the weekly hours
\* raises ZeroDivisionError for 0 hours, in the first iteration; the except
\* clause then returns the fallback module.
_create_learning_module(api_key, cache_in, module_name, goal, profile, module_number) ==
    LET module_skills == _get_module_skills(module_name)
        primary_skill == IF module_skills # <<>> THEN module_skills[1] ELSE module_name
        difficulty == difficulty_map(goal.target_skill_level)
        \* the module built from its steps
        WithSteps(steps) ==
            LearningModule(
                "module_" \o ToString(module_number) \o "_" \o replace(module_name, " ", "_"),
                module_name,
                "Learn " \o Join(module_skills, ", ")
                    \o " through hands-on practice and projects",
                module_skills,
                _get_module_prerequisites(module_name),
                ModuleHours(steps),
                steps,
                _determine_module_difficulty(steps))
        \* the loop over all_resources, or the except clause
        WithResources(all_resources) ==
            IF all_resources # <<>> /\ profile.time_commitment_hours_per_week = 0
            THEN _create_fallback_module(module_name, module_number)
            ELSE WithSteps([i \in 1..Len(all_resources) |->
                               CreateStep(all_resources[i], i - 1, module_name,
                                          primary_skill, goal, profile)])
        \* what follows the fetch
        WithFetched(fetched) ==
            [cache |-> fetched.cache,
             ret |-> WithResources(
                         Take(_combine_resources(
                                  fetched.ret,
                                  _find_relevant_resources(primary_skill,
                                                           goal.target_skill_level)),
                              3))]
    IN  WithFetched(fetch_resources(api_key, cache_in, primary_skill, difficulty, "mixed"))

\* [step for module in modules for step in module.steps]
RECURSIVE AllSteps(_)
AllSteps(modules) ==
    IF modules = <<>> THEN <<>> ELSE Head(modules).steps \o AllSteps(Tail(modules))

\* the confidence with the completeness term left unbounded: modules / 3
_calculate_path_confidence_nomin(modules, readiness_score) ==
    LET all_steps == AllSteps(modules)
        n == Len(all_steps)
        rating_sum == SumSeq([i \in 1..n |-> all_steps[i].resource.rating])
        met == Cardinality({i \in 1..n : all_steps[i].prerequisites_met})
        confidence ==
            FracSum(<< Frac(3 * rating_sum, 500 * n),
                       Frac(3 * readiness_score.n, 10 * readiness_score.d),
                       Frac(2 * Len(modules), 30),
                       Frac(2 * met, 10 * n) >>)
    IN  IF modules = <<>> THEN Frac(0, 1)
        ELSE IF all_steps = <<>> THEN Frac(0, 1)
        ELSE IF FracLeq(Frac(1, 1), confidence) THEN Frac(1, 1)
        ELSE confidence

\* PathEngine._calculate_path_confidence
_calculate_path_confidence(modules, readiness_score) ==
    LET all_steps == AllSteps(modules)
        n == Len(all_steps)
        rating_sum == SumSeq([i \in 1..n |-> all_steps[i].resource.rating])
        met == Cardinality({i \in 1..n : all_steps[i].prerequisites_met})
        confidence ==
            FracSum(<< Frac(3 * rating_sum, 500 * n),
                       Frac(3 * readiness_score.n, 10 * readiness_score.d),
                       Frac(2 * Min(3, Len(modules)), 30),
                       Frac(2 * met, 10 * n) >>)
    IN  IF modules = <<>> THEN Frac(0, 1)
        ELSE IF all_steps = <<>> THEN Frac(0, 1)
        ELSE IF FracLeq(Frac(1, 1), confidence) THEN Frac(1, 1)
        ELSE confidence

\* a fallback that keeps the computed figures: one month, confidence 0
_create_fallback_path_computed(profile, goal) ==
    LET fallback_module == _create_fallback_module("Learn " \o goal.goal_name, 1)
    IN  LearningPath(profile.email, goal.goal_name, goal.target_skill_level,
            <<fallback_module>>, fallback_module.estimated_hours, 0, 1, Frac(0, 1),
            <<goal.goal_name>>)

\* PathEngine._create_fallback_path
_create_fallback_path(profile, goal) ==
    LET fallback_module == _create_fallback_module("Learn " \o goal.goal_name, 1)
    IN  LearningPath(profile.email, goal.goal_name, goal.target_skill_level,
            <<fallback_module>>, fallback_module.estimated_hours, 0, 2, Frac(1, 2),
            <<goal.goal_name>>)

RECURSIVE CreateModules_prepending(_, _, _, _, _, _)
\* the loop with each module put in front of the list instead of appended
CreateModules_prepending(api_key, cache_in, skill_path_in, goal, profile, i) ==
    IF i > Len(skill_path_in) THEN [modules |-> <<>>, cache |-> cache_in]
    ELSE LET WithRest(m, rest) ==
                 [modules |-> rest.modules \o <<m.ret>>, cache |-> rest.cache]
             WithModule(m) ==
                 WithRest(m, CreateModules_prepending(api_key, m.cache, skill_path_in,
                                                      goal, profile, i + 1))
         IN  WithModule(_create_learning_module(api_key, cache_in, skill_path_in[i],
                                                goal, profile, i))

RECURSIVE CreateModules(_, _, _, _, _, _)
\* the loop of generate_learning_path over skill_path from position i:
\* [modules |-> the modules built, cache |-> the cache afterwards]
CreateModules(api_key, cache_in, skill_path_in, goal, profile, i) ==
    IF i > Len(skill_path_in) THEN [modules |-> <<>>, cache |-> cache_in]
    ELSE LET WithRest(m, rest) ==
                 [modules |-> <<m.ret>> \o rest.modules, cache |-> rest.cache]
             WithModule(m) ==
                 WithRest(m, CreateModules(api_key, m.cache, skill_path_in, goal,
                                           profile, i + 1))
         IN  WithModule(_create_learning_module(api_key, cache_in, skill_path_in[i],
                                                goal, profile, i))

\* a module's cost counted from its first step only
ModuleCost_first(module) ==
    IF module.steps = <<>> THEN 0 ELSE module.steps[1].resource.cost_usd

\* total_cost += sum(step.resource.cost_usd for step in module.steps)
ModuleCost(module) ==
    SumSeq([i \in 1..Len(module.steps) |-> module.steps[i].resource.cost_usd])

\* the months with the quotient rounded up instead of down
estimated_months_rounded_up(total_hours, profile) ==
    Max(1, (total_hours + profile.time_commitment_hours_per_week * 4 - 1)
               \div (profile.time_commitment_hours_per_week * 4))

\* estimated_months = max(1, total_hours // (weekly hours * 4)), for
\* positive weekly hours (0 raises ZeroDivisionError before this value is used)
estimated_months(total_hours, profile) ==
    Max(1, total_hours \div (profile.time_commitment_hours_per_week * 4))

\* PathEngine.generate_learning_path: [ret |-> the path, cache |-> the
\* fetcher's cache afterwards, profile, goal, skill_trees, resource_db |->
\* the two arguments and the engine's tables afterwards].  The floor
\* division by weekly hours * 4 raises ZeroDivisionError for 0 hours; the
\* except clause then returns the fallback path.  The call reads its
\* arguments and the tables and assigns none of their fields: the lists it
\* appends to are its own.
generate_learning_path(api_key, cache_in, profile, goal) ==
    LET current_skill_names ==
            [i \in 1..Len(profile.current_skills) |-> profile.current_skills[i].skill_name]
        \* what follows the loop over skill_path
        WithModules(skill_path_out, built) ==
            LET modules == built.modules
                total_hours == SumSeq([i \in 1..Len(modules) |-> modules[i].estimated_hours])
                total_cost == SumSeq([i \in 1..Len(modules) |-> ModuleCost(modules[i])])
                readiness_score == calculate_readiness_score(profile, goal.goal_name)
                confidence_score == _calculate_path_confidence(modules, readiness_score)
            IN  [cache |-> built.cache,
                 profile |-> profile,
                 goal |-> goal,
                 skill_trees |-> skill_trees,
                 resource_db |-> resource_db,
                 ret |-> IF profile.time_commitment_hours_per_week * 4 = 0
                         THEN _create_fallback_path(profile, goal)
                         ELSE LearningPath(profile.email, goal.goal_name,
                                  goal.target_skill_level, modules, total_hours,
                                  total_cost, estimated_months(total_hours, profile),
                                  confidence_score,
                                  skill_path_out)]
        \* what follows the skill-tree lookup
        WithSkillPath(skill_path_out) ==
            WithModules(skill_path_out,
                        CreateModules(api_key, cache_in, skill_path_out, goal, profile, 1))
    IN  WithSkillPath(get_learning_path_for_goal(skill_trees, goal.goal_name,
                                                 current_skill_names))

\* {key: number of positions of keys holding it}
CountBy(keys) ==
    [k \in Range(keys) |-> Cardinality({i \in 1..Len(keys) : keys[i] = k})]

\* PathEngine._analyze_resource_types
_analyze_resource_types(steps) ==
    CountBy([i \in 1..Len(steps) |-> steps[i].resource.resource_type])

\* PathEngine._analyze_difficulty_distribution
_analyze_difficulty_distribution(modules) ==
    CountBy([i \in 1..Len(modules) |-> DifficultyNames[modules[i].difficulty]])

\* PathEngine._analyze_confidence_factors
_analyze_confidence_factors(p) ==
    LET all_steps == AllSteps(p.modules)
        n == Len(all_steps)
    IN  IF all_steps = <<>> THEN EmptyDict
        ELSE [avg_readiness |->
                  FracDivInt(FracSum([i \in 1..n |-> all_steps[i].readiness_score]), n),
              avg_priority |->
                  FracDivInt(FracSum([i \in 1..n |-> all_steps[i].priority_score]), n),
              prerequisites_coverage |->
                  Frac(Cardinality({i \in 1..n : all_steps[i].prerequisites_met}), n)]

\* PathEngine._analyze_cost_breakdown
_analyze_cost_breakdown(steps) ==
    [t \in {steps[i].resource.resource_type : i \in 1..Len(steps)} |->
        SumSeq([i \in 1..Len(steps) |->
                   IF steps[i].resource.resource_type = t
                   THEN steps[i].resource.cost_usd ELSE 0])]

\* PathEngine._analyze_time_breakdown: a later module of the same name
\* overwrites an earlier one
_analyze_time_breakdown(modules) ==
    [name \in {modules[i].module_name : i \in 1..Len(modules)} |->
        LET last == CHOOSE i \in 1..Len(modules) :
                        /\ modules[i].module_name = name
                        /\ \A j \in (i + 1)..Len(modules) : modules[j].module_name # name
        IN  modules[last].estimated_hours]

\* a dictionary built with a weekly load of 0 where the division fails
Analytics_zero_load(p) ==
    LET all_steps == AllSteps(p.modules)
        n == Len(all_steps)
    IN  [total_modules |-> Len(p.modules),
         total_resources |-> n,
         estimated_weekly_hours |->
             IF p.estimated_completion_months = 0 THEN Frac(0, 1)
             ELSE Frac(p.total_estimated_hours * 100, p.estimated_completion_months * 433),
         skill_tree_path |-> p.skill_tree_path]

\* the try block of get_path_analytics: the dictionary it builds.  The
\* division by estimated_completion_months * 4.33 raises ZeroDivisionError
\* for 0 months; the except clause then returns {}.  4.33 is 433 / 100.
Analytics(p) ==
    LET all_steps == AllSteps(p.modules)
        n == Len(all_steps)
    IN  IF p.estimated_completion_months = 0 THEN EmptyDict
        ELSE [total_modules |-> Len(p.modules),
              total_resources |-> n,
              resource_types |-> _analyze_resource_types(all_steps),
              difficulty_distribution |-> _analyze_difficulty_distribution(p.modules),
              avg_resource_rating |->
                  IF all_steps # <<>>
                  THEN Frac(SumSeq([i \in 1..n |-> all_steps[i].resource.rating]), 10 * n)
                  ELSE Frac(0, 1),
              free_resources_count |->
                  Cardinality({i \in 1..n : all_steps[i].resource.cost_usd = 0}),
              estimated_weekly_hours |->
                  Frac(p.total_estimated_hours * 100, p.estimated_completion_months * 433),
              skill_tree_path |-> p.skill_tree_path,
              confidence_breakdown |-> _analyze_confidence_factors(p),
              cost_breakdown |-> _analyze_cost_breakdown(all_steps),
              time_breakdown |-> _analyze_time_breakdown(p.modules)]

\* get_path_analytics collecting the steps by emptying the module list
get_path_analytics_draining(p) ==
    [path |-> [p EXCEPT !.modules = <<>>], ret |-> Analytics(p)]

\* PathEngine.get_path_analytics: [path |-> the path object after the call,
\* ret |-> the dictionary returned]
get_path_analytics(p) ==
    [path |-> p, ret |-> Analytics(p)]

\* next(g.priority for g in learning_goals if g.goal_name == p.goal_skill)
GoalPriority(goals, goal_name) ==
    LET first == CHOOSE i \in 1..Len(goals) :
                     /\ goals[i].goal_name = goal_name
                     /\ \A j \in 1..(i - 1) : goals[j].goal_name # goal_name
    IN  goals[first].priority

\* the sort key (-priority, -confidence_score) of path a is less than that
\* of path b
KeyLess(a, b, goals) ==
    LET pa == GoalPriority(goals, a.goal_skill)
        pb == GoalPriority(goals, b.goal_skill)
    IN  \/ pa > pb
        \/ pa = pb /\ FracLess(b.confidence_score, a.confidence_score)

RECURSIVE InsertByKey(_, _, _)
\* x placed in a sorted list after every element whose key is not greater
InsertByKey(sorted, x, goals) ==
    IF sorted = <<>> THEN <<x>>
    ELSE IF KeyLess(x, Head(sorted), goals) THEN <<x>> \o sorted
    ELSE <<Head(sorted)>> \o InsertByKey(Tail(sorted), x, goals)

RECURSIVE SortByKey(_, _, _)
\* list.sort(key=...): stable, ascending in the key
SortByKey(list, i, goals) ==
    IF i = 0 THEN <<>>
    ELSE InsertByKey(SortByKey(list, i - 1, goals), list[i], goals)

RECURSIVE GeneratePaths_abort(_, _, _, _, _)
\* a loop that a failing goal ends, dropping the paths appended so far
GeneratePaths_abort(api_key, cache_in, user_profile, i, failing) ==
    IF i > Len(user_profile.learning_goals)
    THEN [paths |-> <<>>, cache |-> cache_in, user_profile |-> user_profile]
    ELSE IF failing # {}
         THEN [paths |-> <<>>, cache |-> cache_in, user_profile |-> user_profile]
    ELSE LET WithRest(r, rest) ==
                 [paths |-> <<r.ret>> \o rest.paths, cache |-> rest.cache,
                  user_profile |-> rest.user_profile]
             WithPath(r) ==
                 WithRest(r, GeneratePaths_abort(api_key, r.cache, r.profile,
                                                 i + 1, failing))
         IN  WithPath(generate_learning_path(api_key, cache_in, user_profile,
                                             user_profile.learning_goals[i]))

RECURSIVE GeneratePaths(_, _, _, _, _)
\* the loop of generate_multiple_paths over learning_goals from position i:
\* [paths |-> the paths appended, cache |-> the cache afterwards,
\* user_profile |-> the profile afterwards].
\* generate_learning_path catches its own exceptions and raises only when
\* its handler fails as well, which no profile and goal bring about;
\* failing holds the positions of the goals for which it does, before it
\* fetched anything.  Such a goal is logged and skipped.
GeneratePaths(api_key, cache_in, user_profile, i, failing) ==
    IF i > Len(user_profile.learning_goals)
    THEN [paths |-> <<>>, cache |-> cache_in, user_profile |-> user_profile]
    ELSE IF i \in failing
         THEN GeneratePaths(api_key, cache_in, user_profile, i + 1, failing)
    ELSE LET WithRest(r, rest) ==
                 [paths |-> <<r.ret>> \o rest.paths, cache |-> rest.cache,
                  user_profile |-> rest.user_profile]
             WithPath(r) ==
                 WithRest(r, GeneratePaths(api_key, r.cache, r.profile, i + 1,
                                           failing))
         IN  WithPath(generate_learning_path(api_key, cache_in, user_profile,
                                             user_profile.learning_goals[i]))

\* generate_multiple_paths sorting the goals of the profile in place, by
\* the priority that orders the paths
generate_multiple_paths_sorting_goals(api_key, cache_in, user_profile, failing) ==
    LET goals == user_profile.learning_goals
        by_priority ==
            SelectSeq(goals, LAMBDA g : \A k \in 1..Len(goals) : g.priority >= goals[k].priority)
                \o SelectSeq(goals, LAMBDA g : \E k \in 1..Len(goals) : g.priority < goals[k].priority)
        Sorted(generated) ==
            [cache |-> generated.cache,
             user_profile |-> [generated.user_profile EXCEPT !.learning_goals = by_priority],
             skill_trees |-> skill_trees,
             resource_db |-> resource_db,
             ret |-> SortByKey(generated.paths, Len(generated.paths),
                               generated.user_profile.learning_goals)]
    IN  Sorted(GeneratePaths(api_key, cache_in, user_profile, 1, failing))

\* generate_multiple_paths sorting every path by the priority of the goal it
\* was generated from
generate_multiple_paths_own_priority(api_key, cache_in, user_profile, failing) ==
    LET goals == user_profile.learning_goals
        surviving == SelectSeq([i \in 1..Len(goals) |-> i], LAMBDA i : i \notin failing)
        Sorted(generated) ==
            LET OwnLess(a, b) ==
                    \/ goals[surviving[a]].priority > goals[surviving[b]].priority
                    \/ /\ goals[surviving[a]].priority = goals[surviving[b]].priority
                       /\ FracLess(generated.paths[b].confidence_score,
                                   generated.paths[a].confidence_score)
                RECURSIVE Insert(_, _)
                Insert(sorted, x) ==
                    IF sorted = <<>> THEN <<x>>
                    ELSE IF OwnLess(x, Head(sorted)) THEN <<x>> \o sorted
                    ELSE <<Head(sorted)>> \o Insert(Tail(sorted), x)
                RECURSIVE Sort(_)
                Sort(i) == IF i = 0 THEN <<>> ELSE Insert(Sort(i - 1), i)
                order == Sort(Len(generated.paths))
            IN  [cache |-> generated.cache,
                 user_profile |-> generated.user_profile,
                 skill_trees |-> skill_trees,
                 resource_db |-> resource_db,
                 ret |-> [k \in 1..Len(order) |-> generated.paths[order[k]]]]
    IN  Sorted(GeneratePaths(api_key, cache_in, user_profile, 1, failing))

\* PathEngine.generate_multiple_paths: [ret |-> the sorted list, cache |->
\* the fetcher's cache afterwards, user_profile, skill_trees, resource_db |->
\* the argument and the engine's tables afterwards].  The list that is
\* sorted is the local list of paths.
generate_multiple_paths(api_key, cache_in, user_profile, failing) ==
    LET Sorted(generated) ==
            [cache |-> generated.cache,
             user_profile |-> generated.user_profile,
             skill_trees |-> skill_trees,
             resource_db |-> resource_db,
             ret |-> SortByKey(generated.paths, Len(generated.paths),
                               generated.user_profile.learning_goals)]
    IN  Sorted(GeneratePaths(api_key, cache_in, user_profile, 1, failing))

---------------------------------------------------------------------------
(* user_profile.get_user_profile, non-interactive.                          *)
(*                                                                          *)
(* A float argument is NaN or a number: years and confidence are kept in    *)
(* tenths, the budget in cents.  A raw skill or goal dictionary is a        *)
(* function from the keys it holds to their values.                         *)

Float(v) == [nan |-> FALSE, v |-> v]

NaN == [nan |-> TRUE, v |-> 0]

\* a < b: every comparison with NaN is False
FloatLess(a, b) == ~a.nan /\ ~b.nan /\ a.v < b.v

\* a <= b
FloatLeq(a, b) == ~a.nan /\ ~b.nan /\ a.v <= b.v

Whitespace == {" ", "\t", "\n"}

RECURSIVE strip(_)
\* str.strip()
strip(s) ==
    IF s = "" THEN s
    ELSE IF SubSeq(s, 1, 1) \in Whitespace THEN strip(SubSeq(s, 2, Len(s)))
    ELSE IF SubSeq(s, Len(s), Len(s)) \in Whitespace THEN strip(SubSeq(s, 1, Len(s) - 1))
    ELSE s

\* lower-case letter -> upper-case letter
UpperTable ==
    [c \in {SubSeq(AsciiLower, i, i) : i \in 1..Len(AsciiLower)} |->
        LET i == CHOOSE i \in 1..Len(AsciiLower) : SubSeq(AsciiLower, i, i) = c
        IN  SubSeq(AsciiUpper, i, i)]

RECURSIVE upper(_)
\* str.upper()
upper(s) ==
    LET i == FirstOf(s, DOMAIN UpperTable)
    IN  IF i = 0 THEN s
        ELSE SubSeq(s, 1, i - 1) \o UpperTable[SubSeq(s, i, i)]
                 \o upper(SubSeq(s, i + 1, Len(s)))

\* SkillLevel[name]
SkillLevelOf(name) == CHOOSE i \in 1..Len(SkillLevelNames) : SkillLevelNames[i] = name

\* the two ways a step of get_user_profile ends
Raised == [raised |-> TRUE, ret |-> <<>>]

Returned(value) == [raised |-> FALSE, ret |-> <<value>>]

\* the body of the loop over current_skills_input
ProcessSkill(skill_data) ==
    LET skill_name == strip(get(skill_data, "skill_name", ""))
        level_str == upper(get(skill_data, "level", "BEGINNER"))
        years_exp == get(skill_data, "years_experience", Float(10))
        confidence == get(skill_data, "confidence_score", Float(50))
    IN  IF skill_name = "" THEN Raised
        ELSE IF ~In(level_str, SkillLevelNames) THEN Raised
        ELSE IF ~(FloatLeq(Float(10), confidence) /\ FloatLeq(confidence, Float(100)))
             THEN Raised
        ELSE IF FloatLess(years_exp, Float(0)) THEN Raised
        ELSE Returned(UserSkill(skill_name, SkillLevelOf(level_str), years_exp,
                                confidence.v \div 10))

\* the body of the loop over learning_goals_input
ProcessGoal(goal_data) ==
    LET goal_name == strip(get(goal_data, "goal_name", ""))
        target_level_str == upper(get(goal_data, "target_level", "INTERMEDIATE"))
        priority == get(goal_data, "priority", 3)
        timeline == get(goal_data, "timeline_months", 6)
    IN  IF goal_name = "" THEN Raised
        ELSE IF ~In(target_level_str, SkillLevelNames) THEN Raised
        ELSE IF ~(1 <= priority /\ priority <= 5) THEN Raised
        ELSE IF ~(1 <= timeline /\ timeline <= 60) THEN Raised
        ELSE Returned(LearningGoal(goal_name, SkillLevelOf(target_level_str),
                                   priority, timeline))

RECURSIVE ProcessSkills(_, _)
\* the loop over the first n dictionaries of current_skills_input
ProcessSkills(current_skills_input, n) ==
    IF n = 0 THEN Returned(<<>>)
    ELSE LET WithSkill(before, skill) ==
                 IF skill.raised THEN Raised
                 ELSE Returned(Append(before.ret[1], skill.ret[1]))
             WithBefore(before) ==
                 IF before.raised THEN Raised
                 ELSE WithSkill(before, ProcessSkill(current_skills_input[n]))
         IN  WithBefore(ProcessSkills(current_skills_input, n - 1))

RECURSIVE ProcessGoals(_, _)
\* the loop over the first n dictionaries of learning_goals_input
ProcessGoals(learning_goals_input, n) ==
    IF n = 0 THEN Returned(<<>>)
    ELSE LET WithGoal(before, goal) ==
                 IF goal.raised THEN Raised
                 ELSE Returned(Append(before.ret[1], goal.ret[1]))
             WithBefore(before) ==
                 IF before.raised THEN Raised
                 ELSE WithGoal(before, ProcessGoal(learning_goals_input[n]))
         IN  WithBefore(ProcessGoals(learning_goals_input, n - 1))

valid_styles ==
    <<"video", "reading", "hands-on", "interactive", "mixed",
      "visual and hands-on", "project-based">>

\* UserInputHandler.validate_profile: is_valid
validate_profile(profile) ==
    /\ ~(profile.name = "" \/ Len(strip(profile.name)) = 0)
    /\ ~(profile.email = "" \/ ~Contains("@", profile.email))
    /\ profile.current_skills # <<>>
    /\ profile.learning_goals # <<>>
    /\ ~(profile.time_commitment_hours_per_week <= 0)

\* get_user_profile(..., interactive=False).  name, email and
\* preferred_learning_style are strings or None, the two inputs are lists of
\* dictionaries (None is the empty list here: both are falsy), the hours are
\* an Optional integer and the budget is an Optional float.
get_user_profile(name, email, current_skills_input, learning_goals_input, preferred_learning_style, time_commitment_hours_per_week, budget_usd) ==
    LET Validated(profile) ==
            IF validate_profile(profile) THEN Returned(profile) ELSE Raised
        WithGoals(skills, goals) ==
            IF goals.raised THEN Raised
            ELSE IF /\ Truthy(preferred_learning_style)
                    /\ ~In(lower(preferred_learning_style), LowerAll(valid_styles))
                 THEN Raised
            ELSE IF \/ time_commitment_hours_per_week = <<>>
                    \/ time_commitment_hours_per_week[1] <= 0
                 THEN Raised
            ELSE IF budget_usd # <<>> /\ FloatLess(budget_usd[1], Float(0)) THEN Raised
            ELSE Validated(UserProfile(
                     strip(name), lower(strip(email)), skills.ret[1], goals.ret[1],
                     IF Truthy(preferred_learning_style)
                         THEN preferred_learning_style ELSE "mixed",
                     time_commitment_hours_per_week[1], budget_usd))
        WithSkills(skills) ==
            IF skills.raised THEN Raised
            ELSE WithGoals(skills, ProcessGoals(learning_goals_input,
                                                Len(learning_goals_input)))
    IN  IF ~Truthy(name) \/ ~Truthy(email) THEN Raised
        ELSE IF current_skills_input = <<>> \/ learning_goals_input = <<>> THEN Raised
        ELSE WithSkills(ProcessSkills(current_skills_input, Len(current_skills_input)))

---------------------------------------------------------------------------
(* The values of the variables a specification does not drive.              *)

ProfileRequest(name, email, current_skills_input, learning_goals_input, preferred_learning_style, time_commitment_hours_per_week, budget_usd) ==
    [name |-> name, email |-> email,
     current_skills_input |-> current_skills_input,
     learning_goals_input |-> learning_goals_input,
     preferred_learning_style |-> preferred_learning_style,
     time_commitment_hours_per_week |-> time_commitment_hours_per_week,
     budget_usd |-> budget_usd]

\* PathEngine.__init__: the tables of the engine
TablesInit ==
    /\ engine_skill_trees = skill_trees
    /\ engine_resource_db = resource_db

ProfileIdle ==
    /\ profile_request = ProfileRequest(None, None, <<>>, <<>>, None, <<>>, <<>>)
    /\ profile_result = Raised

RankIdle ==
    /\ rank_request = [resources |-> <<>>, topic |-> None]
    /\ rank_result = <<>>

ReadinessIdle ==
    /\ readiness_request = [user_profile |-> UserProfile("", "", <<>>, <<>>, "", 0, <<>>),
                            target_skill |-> None]
    /\ readiness_result = Frac(0, 1)

PriorityIdle ==
    /\ priority_request = [resource |-> <<>>,
                           user_profile |-> UserProfile("", "", <<>>, <<>>, "", 0, <<>>),
                           goal |-> LearningGoal("", 0, 0, 0)]
    /\ priority_result = Frac(0, 1)

UnitIdle == RankIdle /\ ReadinessIdle /\ PriorityIdle

TreeIdle ==
    /\ goal_skill = None
    /\ current_skills = <<>>
    /\ skill_path = <<>>

EngineIdle ==
    /\ caller_profile = UserProfile("", "", <<>>, <<>>, "", 0, <<>>)
    /\ caller_goal = LearningGoal("", 0, 0, 0)
    /\ learning_path = <<>>
    /\ analytics = <<>>
    /\ paths = <<>>
    /\ failed_goals = {}
    /\ TablesInit
    /\ ProfileIdle

---------------------------------------------------------------------------
(* The skill tree driven alone: a caller picks goal_skill and               *)
(* current_skills and calls SkillTree.get_learning_path_for_goal once.      *)

MaxCurrentSkills == 2

\* Skill names a caller may hold: first and later skills of modules of all
\* three trees, skills taught in more than one tree, a name that differs
\* from a tree skill in case only, and a name no tree knows.
SkillPool ==
    {"Python", "Programming Basics", "Statistics", "Data Analysis", "NumPy",
     "Machine Learning", "Docker", "HTML", "JavaScript", "Node.js", "SQL",
     "Cloud Computing", "Kubernetes", "python", "Juggling"}

\* every skill some module teaches
TreeSkills ==
    UNION {UNION {Range(skill_trees[t].modules[m].skills) :
                      m \in 1..Len(skill_trees[t].modules)} :
               t \in 1..Len(skill_trees)}

\* Goals: every skill of the trees, and names no module lists.
GoalSkills ==
    TreeSkills \cup {"Quantum Basket Weaving", "machine learning", "Python Fundamentals"}

TreeInit ==
    /\ pc = "start"
    /\ goal_skill \in GoalSkills
    /\ current_skills \in SeqsUpTo(SkillPool, MaxCurrentSkills)
    /\ skill_path = <<>>
    /\ openai_api_key = None
    /\ cache = EmptyDict
    /\ fetches = <<>>
    /\ EngineIdle
    /\ UnitIdle

GetLearningPathForGoal ==
    /\ pc = "start"
    /\ pc' = "get_learning_path_for_goal"
    /\ skill_path' = get_learning_path_for_goal(engine_skill_trees, goal_skill,
                                                current_skills)
    /\ UNCHANGED <<unitVars, goal_skill, current_skills, fetcherVars, fetches, engineVars>>

TreeNext == GetLearningPathForGoal

SpecTree == TreeInit /\ [][TreeNext]_vars

\* skill_trees tables other than the built-in one: one tree of the modules
\* A, B, C teaching a, b, c, with every choice of prerequisites lists over
\* the three modules and the name X of no module (cycles, self references,
\* repeated and unknown names included), and optionally with the module B
\* lacking its "skills" entry.
MaxPrerequisites == 2

CustomPrerequisites == SeqsUpTo({"A", "B", "C", "X"}, MaxPrerequisites)

CustomModule(name, skill, prerequisites, malformed) ==
    IF name = malformed
    THEN [name |-> name, prerequisites |-> prerequisites, next |-> <<>>]
    ELSE Node(name, <<skill>>, prerequisites, <<>>)

CustomTrees ==
    { << [tree |-> "Custom",
          modules |-> << CustomModule("A", "a", prereqs_a, malformed),
                         CustomModule("B", "b", prereqs_b, malformed),
                         CustomModule("C", "c", prereqs_c, malformed) >>] >> :
        prereqs_a \in CustomPrerequisites, prereqs_b \in CustomPrerequisites,
        prereqs_c \in CustomPrerequisites, malformed \in {None, "B"} }

CustomTreeInit ==
    /\ pc = "start"
    /\ goal_skill \in {"a", "c", "z"}
    /\ current_skills \in {<<>>, <<"b">>}
    /\ skill_path = <<>>
    /\ openai_api_key = None
    /\ cache = EmptyDict
    /\ fetches = <<>>
    /\ caller_profile = UserProfile("", "", <<>>, <<>>, "", 0, <<>>)
    /\ caller_goal = LearningGoal("", 0, 0, 0)
    /\ learning_path = <<>>
    /\ analytics = <<>>
    /\ paths = <<>>
    /\ failed_goals = {}
    /\ engine_skill_trees \in CustomTrees
    /\ engine_resource_db = resource_db
    /\ ProfileIdle
    /\ UnitIdle

SpecCustomTree == CustomTreeInit /\ [][TreeNext]_vars

---------------------------------------------------------------------------
(* The resource fetcher driven alone: one ResourceFetcher instance, built   *)
(* with or without an API key, on which a caller makes fetch_resources      *)
(* calls.                                                                   *)

MaxFetchCalls == 2

\* Topics: two curated ones, one that is not curated, and one that holds the
\* separator of the cache key.
FetchTopics == {"Python", "Machine Learning", "Rust", "Python_beginner"}

FetchDifficulties == {"beginner", "intermediate", "mixed", "beginner_mixed"}

FetchTypes == {"mixed", "mixed_mixed"}

ApiKeys == {None, "sk-test"}

FetchInit ==
    /\ pc = "start"
    /\ openai_api_key \in ApiKeys
    /\ cache = EmptyDict
    /\ fetches = <<>>
    /\ TreeIdle
    /\ EngineIdle
    /\ UnitIdle

FetchResources(topic, difficulty, resource_type) ==
    /\ Len(fetches) < MaxFetchCalls
    /\ LET r == fetch_resources(openai_api_key, cache, topic, difficulty, resource_type)
       IN  /\ cache' = r.cache
           /\ fetches' = Append(fetches,
                  [topic |-> topic, difficulty |-> difficulty,
                   resource_type |-> resource_type,
                   resources |-> r.ret, stages |-> r.stages])
    /\ pc' = "fetch_resources"
    /\ UNCHANGED <<unitVars, openai_api_key, treeVars, engineVars>>

FetchNext ==
    \E topic \in FetchTopics, difficulty \in FetchDifficulties, resource_type \in FetchTypes :
        FetchResources(topic, difficulty, resource_type)

SpecFetch == FetchInit /\ [][FetchNext]_vars

---------------------------------------------------------------------------
(* The resource fetcher with stages that may raise: the calls of SpecFetch, *)
(* and calls in which one of the stages fails.                              *)

\* the stages of a cache miss
FetchStages == {"curated", "scrape", "ai", "rank"}

FetchResourcesFailing(topic, difficulty, resource_type, failing_stage) ==
    /\ Len(fetches) < MaxFetchCalls
    /\ \E r \in {fetch_resources_failing(openai_api_key, cache, topic, difficulty,
                                         resource_type, failing_stage)} :
           /\ cache' = r.cache
           /\ fetches' = Append(fetches,
                  [topic |-> topic, difficulty |-> difficulty,
                   resource_type |-> resource_type,
                   resources |-> r.ret, stages |-> r.stages])
    /\ pc' = "fetch_resources"
    /\ UNCHANGED <<unitVars, openai_api_key, treeVars, engineVars>>

FetchFailingNext ==
    \E topic \in FetchTopics, difficulty \in FetchDifficulties,
       resource_type \in FetchTypes, failing_stage \in FetchStages :
        FetchResourcesFailing(topic, difficulty, resource_type, failing_stage)

FaultyNext == FetchNext \/ FetchFailingNext

SpecFetchFaulty == FetchInit /\ [][FaultyNext]_vars

---------------------------------------------------------------------------
(* The ranking step of fetch_resources on candidate lists of its own: the   *)
(* built-in stages never produce two candidates of one url.                 *)

MaxCandidates == 5

RankTopics == {"Python", "Rust"}

\* Candidates: two of one url (the later one rated higher), and titles and
\* descriptions that hold a topic in another case or not at all.
RankCandidates ==
    { ResourceDict("Python for Everybody", "Complete Python course", "https://a.example",
                   "Coursera", "course", "beginner", 40, 60),
      ResourceDict("Automate the Boring Stuff", "Practical programming", "https://a.example",
                   "Free Book", "book", "beginner", 49, 40),
      ResourceDict("Learn Rust", "A python comparison", "https://b.example",
                   "Web", "tutorial", "beginner", 42, 20),
      ResourceDict("Systems Programming", "Memory and threads", "https://c.example",
                   "Web", "course", "advanced", 45, 30),
      ResourceDict("PYTHON Tricks", "Rust and Python idioms", "https://d.example",
                   "Web", "book", "intermediate", 30, 10) }

RankInit ==
    /\ pc = "start"
    /\ openai_api_key = None
    /\ cache = EmptyDict
    /\ fetches = <<>>
    /\ TreeIdle
    /\ EngineIdle
    /\ rank_request \in
           {[resources |-> resources, topic |-> topic] :
                resources \in SeqsUpTo(RankCandidates, MaxCandidates), topic \in RankTopics}
    /\ rank_result = <<>>
    /\ ReadinessIdle
    /\ PriorityIdle

\* resources = self._rank_and_filter_resources(resources, topic)[:3]
RankAndFilterResources ==
    /\ pc = "start"
    /\ pc' = "_rank_and_filter_resources"
    /\ rank_result' = Take(_rank_and_filter_resources(rank_request.resources,
                                                      rank_request.topic), 3)
    /\ UNCHANGED <<rank_request, readiness_request, readiness_result,
                   priority_request, priority_result, treeVars, fetcherVars,
                   fetches, engineVars>>

RankNext == RankAndFilterResources

SpecRank == RankInit /\ [][RankNext]_vars

---------------------------------------------------------------------------
(* SkillMapper.calculate_readiness_score called on profiles of its own.     *)

MaxReadinessSkills == 3

\* Skills: one name in three spellings with different levels, and the two
\* other prerequisites of "Machine Learning" at the top of both scales.
ReadinessSkills ==
    { UserSkill("python", 1, 5, 1),
      UserSkill("Python", 4, 80, 10),
      UserSkill("PYTHON", 2, 20, 7),
      UserSkill("Statistics", 4, 50, 10),
      UserSkill("Data Analysis", 4, 50, 10),
      UserSkill("Docker", 3, 30, 6) }

\* Targets: two with prerequisites, one without, and one whose name is in the
\* table in another case.
ReadinessTargets == {"Machine Learning", "Kubernetes", "Rust", "machine learning"}

ReadinessInit ==
    /\ pc = "start"
    /\ openai_api_key = None
    /\ cache = EmptyDict
    /\ fetches = <<>>
    /\ TreeIdle
    /\ EngineIdle
    /\ RankIdle
    /\ PriorityIdle
    /\ readiness_request \in
           {[user_profile |-> UserProfile("Alex", "alex@example.com", skills, <<>>,
                                          "mixed", 10, <<>>),
             target_skill |-> target_skill] :
                skills \in SeqsUpTo(ReadinessSkills, MaxReadinessSkills),
                target_skill \in ReadinessTargets}
    /\ readiness_result = Frac(0, 1)

CalculateReadinessScore ==
    /\ pc = "start"
    /\ pc' = "calculate_readiness_score"
    /\ readiness_result' = calculate_readiness_score(readiness_request.user_profile,
                                                     readiness_request.target_skill)
    /\ UNCHANGED <<readiness_request, rank_request, rank_result, priority_request,
                   priority_result, treeVars, fetcherVars, fetches, engineVars>>

ReadinessNext == CalculateReadinessScore

SpecReadiness == ReadinessInit /\ [][ReadinessNext]_vars

---------------------------------------------------------------------------
(* PathEngine._calculate_resource_priority called on resources, profiles    *)
(* and goals of its own.                                                    *)

\* Resources: the catalog, a long documentation resource, a resource that
\* costs more than every budget, and one whose rating is None.
PriorityResources ==
    Range(resource_db) \cup
    { LearningResource("docs", "Language Reference", "The reference manual",
                       "documentation", 4, 200, <<"Python">>, <<>>, 0, 39, None, None),
      LearningResource("bootcamp", "Immersive Bootcamp", "Twelve weeks on site",
                       "certification", 3, 41, <<"Python">>, <<>>, 1200000, 50, None, None),
      [id |-> "unrated", title |-> "Unrated Notes", description |-> "",
       resource_type |-> "book", difficulty |-> 1, estimated_hours |-> 5,
       skills_taught |-> <<"Python">>, prerequisites |-> <<>>, cost_usd |-> 1000,
       url |-> None, provider |-> None] }

\* budgets in cents: None, 0, 50.00 and 300.00
PriorityBudgets == {<<>>, <<0>>, <<5000>>, <<30000>>}

PriorityHours == {0, 10}

PriorityInit ==
    /\ pc = "start"
    /\ openai_api_key = None
    /\ cache = EmptyDict
    /\ fetches = <<>>
    /\ TreeIdle
    /\ EngineIdle
    /\ RankIdle
    /\ ReadinessIdle
    /\ priority_request \in
           {[resource |-> <<resource>>,
             user_profile |-> UserProfile("Alex", "alex@example.com", <<>>, <<>>, "mixed",
                                          hours, budget),
             goal |-> LearningGoal("Python", level, 1, 6)] :
                resource \in PriorityResources, hours \in PriorityHours,
                budget \in PriorityBudgets, level \in 1..4}
    /\ priority_result = Frac(0, 1)

CalculateResourcePriority ==
    /\ pc = "start"
    /\ pc' = "_calculate_resource_priority"
    /\ priority_result' = _calculate_resource_priority(priority_request.resource[1],
                                                       priority_request.user_profile,
                                                       priority_request.goal)
    /\ UNCHANGED <<priority_request, rank_request, rank_result, readiness_request,
                   readiness_result, treeVars, fetcherVars, fetches, engineVars>>

PriorityNext == CalculateResourcePriority

SpecPriority == PriorityInit /\ [][PriorityNext]_vars

---------------------------------------------------------------------------
(* The path engine driven for one goal: a caller builds a PathEngine, with  *)
(* or without an API key, and a profile whose only goal is the one it asks  *)
(* a path for.                                                              *)

MaxSkills == 2

MaxAnalyticsCalls == 2

\* The skills a profile may list: names the trees and the prerequisite map
\* know, at several levels and confidences, and a name in another case.
UserSkillPool ==
    { UserSkill("Python", 2, 20, 7),
      UserSkill("python", 1, 5, 1),
      UserSkill("Statistics", 1, 10, 4),
      UserSkill("Data Analysis", 4, 50, 10),
      UserSkill("Machine Learning", 3, 30, 10) }

GoalNames ==
    {"Machine Learning", "Deep Learning", "Python", "Data Analysis", "React",
     "Kubernetes", "Quantum Basket Weaving"}

SkillLevels == 1..Len(SkillLevelNames)

\* weekly hours: 0 is what a profile built without validation may hold
WeeklyHours == {0, 10}

\* budgets in cents: None and 300.00
Budgets == {<<>>, <<30000>>}

EngineInit ==
    /\ pc = "start"
    /\ openai_api_key \in ApiKeys
    /\ cache = EmptyDict
    /\ fetches = <<>>
    /\ TreeIdle
    /\ caller_goal \in {LearningGoal(g, level, 1, 6) : g \in GoalNames, level \in SkillLevels}
    /\ \E skills \in SeqsUpTo(UserSkillPool, MaxSkills), hours \in WeeklyHours,
          budget \in Budgets :
           caller_profile = UserProfile("Alex Johnson", "alex.johnson@example.com",
                                        skills, <<caller_goal>>, "mixed", hours, budget)
    /\ learning_path = <<>>
    /\ analytics = <<>>
    /\ paths = <<>>
    /\ failed_goals = {}
    /\ TablesInit
    /\ ProfileIdle
    /\ UnitIdle

\* the caller asks for the path of its goal, any number of times, before it
\* looks at the analytics of the path it holds
GenerateLearningPath ==
    /\ analytics = <<>>
    /\ \E r \in {generate_learning_path(openai_api_key, cache, caller_profile, caller_goal)} :
           /\ cache' = r.cache
           /\ learning_path' = <<r.ret>>
           /\ caller_profile' = r.profile
           /\ caller_goal' = r.goal
           /\ engine_skill_trees' = r.skill_trees
           /\ engine_resource_db' = r.resource_db
    /\ pc' = "generate_learning_path"
    /\ UNCHANGED <<unitVars, openai_api_key, fetches, treeVars, profile_request, profile_result,
                   analytics, paths, failed_goals>>

GetPathAnalytics ==
    /\ learning_path # <<>>
    /\ Len(analytics) < MaxAnalyticsCalls
    /\ \E r \in {get_path_analytics(learning_path[1])} :
           /\ learning_path' = <<r.path>>
           /\ analytics' = Append(analytics, [path |-> learning_path[1], ret |-> r.ret])
    /\ pc' = "get_path_analytics"
    /\ UNCHANGED <<unitVars, fetcherVars, fetches, treeVars, callerVars, paths, failed_goals,
                   tableVars>>

Next == GenerateLearningPath \/ GetPathAnalytics

Spec == EngineInit /\ [][Next]_vars

---------------------------------------------------------------------------
(* The path engine driven for every goal of a profile: a caller builds a    *)
(* PathEngine and a profile with several goals and calls                    *)
(* generate_multiple_paths.                                                 *)

MaxGoals == 2

\* goals of three names at priorities 1 and 2, one of the names at two
\* target levels, which tell the paths of equally named goals apart
MultiGoalPool ==
    {LearningGoal(g, 2, priority, 6) :
        g \in {"Python", "Machine Learning", "Quantum Basket Weaving"},
        priority \in {1, 2}}
    \cup {LearningGoal("Machine Learning", 4, priority, 6) : priority \in {1, 2}}

\* lists of three goals beyond the lists of MaxGoals: two goals named
\* Machine Learning, of different levels and priorities, around one named
\* Python
DuplicateNameGoals ==
    { <<LearningGoal("Machine Learning", 2, first, 6),
        LearningGoal("Python", 2, middle, 6),
        LearningGoal("Machine Learning", 4, 3 - first, 6)>> :
          first \in {1, 2}, middle \in {1, 2} }

MultiSkills ==
    { <<>>,
      <<UserSkill("Python", 2, 20, 7)>>,
      <<UserSkill("Python", 2, 20, 7), UserSkill("Statistics", 1, 10, 4)>> }

MultiInit ==
    /\ pc = "start"
    /\ openai_api_key \in ApiKeys
    /\ cache = EmptyDict
    /\ fetches = <<>>
    /\ TreeIdle
    /\ caller_goal = LearningGoal("", 0, 0, 0)
    /\ \E skills \in MultiSkills,
          goals \in SeqsUpTo(MultiGoalPool, MaxGoals) \cup DuplicateNameGoals,
          hours \in WeeklyHours :
           caller_profile = UserProfile("Alex Johnson", "alex.johnson@example.com",
                                        skills, goals, "mixed", hours, <<>>)
    /\ learning_path = <<>>
    /\ analytics = <<>>
    /\ paths = <<>>
    /\ failed_goals = {}
    /\ TablesInit
    /\ ProfileIdle
    /\ UnitIdle

\* one call; generate_learning_path may fail for any of the goals
GenerateMultiplePaths ==
    /\ \E failing \in SUBSET (1..Len(caller_profile.learning_goals)) :
       \E r \in {generate_multiple_paths(openai_api_key, cache, caller_profile, failing)} :
           /\ cache' = r.cache
           /\ paths' = <<r.ret>>
           /\ failed_goals' = failing
           /\ caller_profile' = r.user_profile
           /\ engine_skill_trees' = r.skill_trees
           /\ engine_resource_db' = r.resource_db
    /\ pc' = "generate_multiple_paths"
    /\ UNCHANGED <<unitVars, openai_api_key, fetches, treeVars, caller_goal, profile_request,
                   profile_result, learning_path, analytics>>

MultiNext == GenerateMultiplePaths

SpecMulti == MultiInit /\ [][MultiNext]_vars

---------------------------------------------------------------------------
(* Both entry points of the path engine on one engine: a caller with a      *)
(* profile of several goals asks for the path of one goal and for the       *)
(* paths of all its goals, in any order and any number of times.            *)

\* the goal generate_learning_path is called with: one the trees know and
\* one they do not
FrameGoals == {g \in MultiGoalPool : g.priority = 1 /\ g.goal_name # "Python"}

\* profiles with at least one skill
FrameSkills == {skills \in MultiSkills : skills # <<>>}

FrameInit ==
    /\ pc = "start"
    /\ openai_api_key \in ApiKeys
    /\ cache = EmptyDict
    /\ fetches = <<>>
    /\ TreeIdle
    /\ caller_goal \in FrameGoals
    /\ \E skills \in FrameSkills, goals \in SeqsUpTo(MultiGoalPool, MaxGoals),
          hours \in WeeklyHours :
           caller_profile = UserProfile("Alex Johnson", "alex.johnson@example.com",
                                        skills, goals, "mixed", hours, <<>>)
    /\ learning_path = <<>>
    /\ analytics = <<>>
    /\ paths = <<>>
    /\ failed_goals = {}
    /\ TablesInit
    /\ ProfileIdle
    /\ UnitIdle

FrameNext == GenerateLearningPath \/ GenerateMultiplePaths

SpecFrame == FrameInit /\ [][FrameNext]_vars

---------------------------------------------------------------------------
(* get_path_analytics driven alone: a caller holds a LearningPath it put    *)
(* together or edited itself and asks for its analytics.                    *)

\* the module lists of the paths: none, one and two generic modules
HandBuiltModules ==
    { <<>>,
      <<_create_fallback_module("Learn Python", 1)>>,
      <<_create_fallback_module("Learn Python", 1),
        _create_fallback_module("Practice Python", 2)>> }

\* months of completion: 0 is what a path edited by hand may hold
HandBuiltMonths == {0, 1, 2}

HandBuiltHours == {0, 20, 45}

HandBuiltPaths ==
    { LearningPath("alex.johnson@example.com", g, 2, modules, hours, 0, months,
                   Frac(1, 2), <<g>>) :
          g \in GoalNames, modules \in HandBuiltModules, hours \in HandBuiltHours,
          months \in HandBuiltMonths }

AnalyticsInit ==
    /\ pc = "start"
    /\ openai_api_key = None
    /\ cache = EmptyDict
    /\ fetches = <<>>
    /\ TreeIdle
    /\ caller_profile = UserProfile("", "", <<>>, <<>>, "", 0, <<>>)
    /\ caller_goal = LearningGoal("", 0, 0, 0)
    /\ learning_path \in {<<p>> : p \in HandBuiltPaths}
    /\ analytics = <<>>
    /\ paths = <<>>
    /\ failed_goals = {}
    /\ TablesInit
    /\ ProfileIdle
    /\ UnitIdle

AnalyticsNext == GetPathAnalytics

SpecAnalytics == AnalyticsInit /\ [][AnalyticsNext]_vars

---------------------------------------------------------------------------
(* get_user_profile driven alone: a caller passes raw input, well formed    *)
(* or not, and gets a profile or a ValueError.                              *)

MaxRawSkills == 2

MaxRawGoals == 2

\* name and email: missing, blank, without "@", and to be normalised (a
\* missing email takes the branch of a missing name)
RawNames == {None, "  ", " Alex Johnson "}

RawEmails == {"alex", " Alex@Example.com "}

\* raw skills: complete (name to strip, lower-case level, confidence 7.5),
\* name only, and one for each check of the loop
RawSkills ==
    { [skill_name |-> " Python ", level |-> "intermediate",
       years_experience |-> Float(20), confidence_score |-> Float(75)],
      [skill_name |-> "SQL"],
      [skill_name |-> "  "],
      [skill_name |-> "Go", level |-> "GURU"],
      [skill_name |-> "Go", years_experience |-> Float(-10)],
      [skill_name |-> "Go", years_experience |-> NaN],
      [skill_name |-> "Go", confidence_score |-> Float(110)] }

RawGoals ==
    { [goal_name |-> "Machine Learning", target_level |-> "ADVANCED",
       priority |-> 1, timeline_months |-> 12],
      [goal_name |-> " React "],
      [goal_name |-> "React", priority |-> 0],
      [goal_name |-> "React", timeline_months |-> 61] }

RawStyles == {None, "VIDEO", "lecture"}

RawHours == {<<>>, <<0>>, <<10>>}

\* budgets in cents: None, -1.00, NaN and 300.00
RawBudgets == {<<>>, <<Float(-100)>>, <<NaN>>, <<Float(30000)>>}

ProfileInit ==
    /\ pc = "start"
    /\ openai_api_key = None
    /\ cache = EmptyDict
    /\ fetches = <<>>
    /\ TreeIdle
    /\ caller_profile = UserProfile("", "", <<>>, <<>>, "", 0, <<>>)
    /\ caller_goal = LearningGoal("", 0, 0, 0)
    /\ learning_path = <<>>
    /\ analytics = <<>>
    /\ paths = <<>>
    /\ failed_goals = {}
    /\ TablesInit
    /\ profile_request \in
           {ProfileRequest(name, email, skills, goals, style, hours, budget) :
                name \in RawNames, email \in RawEmails,
                skills \in SeqsUpTo(RawSkills, MaxRawSkills),
                goals \in SeqsUpTo(RawGoals, MaxRawGoals),
                style \in RawStyles, hours \in RawHours, budget \in RawBudgets}
    /\ profile_result = Raised
    /\ UnitIdle

GetUserProfile ==
    /\ pc = "start"
    /\ pc' = "get_user_profile"
    /\ profile_result' =
           get_user_profile(profile_request.name, profile_request.email,
                            profile_request.current_skills_input,
                            profile_request.learning_goals_input,
                            profile_request.preferred_learning_style,
                            profile_request.time_commitment_hours_per_week,
                            profile_request.budget_usd)
    /\ UNCHANGED <<unitVars, profile_request, caller_profile, caller_goal, treeVars,
                   fetcherVars, fetches, learning_path, analytics, paths,
                   failed_goals, tableVars>>

ProfileNext == GetUserProfile

SpecProfile == ProfileInit /\ [][ProfileNext]_vars

---------------------------------------------------------------------------
(* Properties of the skill tree.                                            *)

\* every module record of every tree (module names are unique over the trees)
AllModules ==
    UNION {Range(skill_trees[t].modules) : t \in 1..Len(skill_trees)}

\* the user has at least one of the skills the module teaches
HasAnySkill(module, skills) == \E k \in 1..Len(module.skills) : In(module.skills[k], skills)

\* the position of name in list, 0 when absent
Position(name, list) ==
    IF In(name, list) THEN CHOOSE i \in 1..Len(list) : list[i] = name ELSE 0

TreeReturned == pc = "get_learning_path_for_goal"

\* C6: in the returned path every prerequisite module the user has no skill
\* of comes before the module that needs it, for every module of the path
\* the user has no skill of; with current skills [Python] and goal
\* "Machine Learning", "Statistics Fundamentals" is in the path before
\* "Machine Learning Basics".
C6_PrerequisitesBeforeModule ==
    TreeReturned =>
        /\ \A j \in 1..Len(skill_path) : \A M \in AllModules :
               (M.name = skill_path[j] /\ ~HasAnySkill(M, current_skills)) =>
                   \A P \in AllModules :
                       (In(P.name, M.prerequisites) /\ ~HasAnySkill(P, current_skills)) =>
                           /\ Position(P.name, skill_path) > 0
                           /\ Position(P.name, skill_path) < j
        /\ (goal_skill = "Machine Learning" /\ current_skills = <<"Python">>) =>
               /\ Position("Statistics Fundamentals", skill_path) > 0
               /\ Position("Statistics Fundamentals", skill_path)
                      < Position("Machine Learning Basics", skill_path)

C6_Witness ==
    /\ TreeReturned
    /\ goal_skill = "Machine Learning"
    /\ current_skills = <<"Python">>
    /\ skill_path = <<"Data Analysis Basics", "Statistics Fundamentals",
                      "Machine Learning Basics">>

\* C7: when the user has any one skill of the module that teaches
\* goal_skill, the returned path is exactly [that module]: none of its
\* prerequisites appear.
C7_HasAnyTargetSkillGivesTargetOnly ==
    TreeReturned =>
        \A t \in 1..Len(skill_trees) : \A m \in 1..Len(skill_trees[t].modules) :
            LET M == skill_trees[t].modules[m]
                first == /\ In(goal_skill, M.skills)
                         /\ \A t2 \in 1..t : \A m2 \in 1..Len(skill_trees[t2].modules) :
                                (t2 < t \/ m2 < m) =>
                                    ~In(goal_skill, skill_trees[t2].modules[m2].skills)
            IN  (first /\ HasAnySkill(M, current_skills)) => skill_path = <<M.name>>

\* the user has one of the two skills of Machine Learning Basics and none of
\* its prerequisites' skills
C7_Witness ==
    /\ TreeReturned
    /\ goal_skill = "Scikit-learn"
    /\ current_skills = <<"Machine Learning">>
    /\ skill_path = <<"Machine Learning Basics">>

\* C8: a goal_skill that no module of any tree lists yields the one-element
\* path ["Custom Learning Path for {goal_skill}"], whatever current_skills.
C8_UnknownGoalGivesCustomPath ==
    TreeReturned =>
        ((\A M \in AllModules : ~In(goal_skill, M.skills)) =>
             skill_path = <<"Custom Learning Path for " \o goal_skill>>)

C8_Witness ==
    /\ TreeReturned
    /\ goal_skill = "Quantum Basket Weaving"
    /\ current_skills = <<"Python", "SQL">>
    /\ skill_path = <<"Custom Learning Path for Quantum Basket Weaving">>

---------------------------------------------------------------------------
(* Properties of the resource fetcher.                                      *)

SameTriple(a, b) ==
    /\ a.topic = b.topic
    /\ a.difficulty = b.difficulty
    /\ a.resource_type = b.resource_type

\* C9: on one fetcher, once a call for (topic, difficulty, type) has
\* returned, every later call with the same triple returns a list equal to
\* the first one's and invokes no generation stage.
C9_RepeatedFetchIsCached ==
    \A i \in 1..Len(fetches) : \A j \in 1..Len(fetches) :
        (i < j /\ SameTriple(fetches[i], fetches[j])) =>
            /\ fetches[j].resources = fetches[i].resources
            /\ fetches[j].stages = <<>>

\* the same query twice: the first call ran the stages, the second none
C9_Witness ==
    /\ Len(fetches) = 2
    /\ SameTriple(fetches[1], fetches[2])
    /\ fetches[1].topic = "Python" /\ fetches[1].difficulty = "intermediate"
    /\ fetches[1].stages # <<>>
    /\ fetches[2].stages = <<>>
    /\ fetches[2].resources = fetches[1].resources
    /\ Len(fetches[2].resources) > 0


---------------------------------------------------------------------------
(* Properties of the path generate_learning_path returns.                   *)

\* generate_learning_path has returned
PathReturned == learning_path # <<>>

\* the whole-path fallback of the goal asked for
IsFallbackPath(p) == p = _create_fallback_path(caller_profile, caller_goal)

\* C1: for a profile with positive weekly hours and any goal, the path
\* generate_learning_path returns has at least one module and at least one
\* step.
C1_PathNeverEmpty ==
    (PathReturned /\ caller_profile.time_commitment_hours_per_week > 0)
        => /\ Len(learning_path[1].modules) >= 1
           /\ Len(AllSteps(learning_path[1].modules)) >= 1

\* a path of a single module for a goal no tree knows, at 10 hours a week
C1_Witness ==
    /\ PathReturned
    /\ caller_profile.time_commitment_hours_per_week = 10
    /\ caller_goal.goal_name = "Quantum Basket Weaving"
    /\ Len(learning_path[1].modules) = 1
    /\ Len(learning_path[1].modules[1].steps) >= 1
    /\ ~IsFallbackPath(learning_path[1])

\* C2: in every path generate_learning_path returns, the whole-path fallback
\* included, total_estimated_hours is the sum of resource.estimated_hours
\* over every step of every module.
C2_TotalHoursIsSumOfStepHours ==
    PathReturned =>
        LET all_steps == AllSteps(learning_path[1].modules)
        IN  learning_path[1].total_estimated_hours
                = SumSeq([i \in 1..Len(all_steps) |-> all_steps[i].resource.estimated_hours])

\* a path assembled from several modules, one of them with several steps
C2_Witness ==
    /\ PathReturned
    /\ ~IsFallbackPath(learning_path[1])
    /\ Len(learning_path[1].modules) >= 3
    /\ \E i \in 1..Len(learning_path[1].modules) :
           Len(learning_path[1].modules[i].steps) >= 2
    /\ learning_path[1].total_estimated_hours > 0

\* C3: in every path generate_learning_path returns, total_cost_usd is the
\* sum of resource.cost_usd over every step of every module.
C3_TotalCostIsSumOfStepCosts ==
    PathReturned =>
        LET all_steps == AllSteps(learning_path[1].modules)
        IN  learning_path[1].total_cost_usd
                = SumSeq([i \in 1..Len(all_steps) |-> all_steps[i].resource.cost_usd])

\* a path with two or more steps whose resources cost money
C3_Witness ==
    /\ PathReturned
    /\ LET all_steps == AllSteps(learning_path[1].modules)
       IN  Cardinality({i \in 1..Len(all_steps) : all_steps[i].resource.cost_usd > 0}) >= 2
    /\ learning_path[1].total_cost_usd > 0

\* 0.3 * (mean rating / 5) + 0.3 * readiness(goal) + 0.2 * min(1, modules / 3)
\* + 0.2 * (fraction of steps with prerequisites_met), at most 1, of a path
\* with at least one step
WeightedConfidence(p) ==
    LET all_steps == AllSteps(p.modules)
        n == Len(all_steps)
        mean_rating == Frac(SumSeq([i \in 1..n |-> all_steps[i].resource.rating]), 10 * n)
        readiness == calculate_readiness_score(caller_profile, caller_goal.goal_name)
        completeness == IF Len(p.modules) >= 3 THEN Frac(1, 1) ELSE Frac(Len(p.modules), 3)
        met == Frac(Cardinality({i \in 1..n : all_steps[i].prerequisites_met}), n)
        weighted ==
            FracSum(<< Frac(3 * mean_rating.n, 10 * 5 * mean_rating.d),
                       Frac(3 * readiness.n, 10 * readiness.d),
                       Frac(2 * completeness.n, 10 * completeness.d),
                       Frac(2 * met.n, 10 * met.d) >>)
    IN  IF FracLeq(Frac(1, 1), weighted) THEN Frac(1, 1) ELSE weighted

\* C4: the confidence_score of the path generate_learning_path returns lies
\* in [0, 1]; it is the weighted sum of rating, readiness, completeness and
\* prerequisite coverage, at most 1, or the value 0.5 of the fallback path.
C4_ConfidenceIsWeightedSumInUnitInterval ==
    PathReturned =>
        /\ learning_path[1].confidence_score.n >= 0
        /\ learning_path[1].confidence_score.n <= learning_path[1].confidence_score.d
        /\ \/ /\ IsFallbackPath(learning_path[1])
              /\ learning_path[1].confidence_score = Frac(1, 2)
           \/ /\ AllSteps(learning_path[1].modules) # <<>>
              /\ learning_path[1].confidence_score = WeightedConfidence(learning_path[1])

\* a path of more than three modules, some of whose steps have their
\* prerequisites met and some not, with a confidence strictly between 0 and 1
C4_Witness ==
    /\ PathReturned
    /\ ~IsFallbackPath(learning_path[1])
    /\ Len(learning_path[1].modules) > 3
    /\ \E i \in 1..Len(AllSteps(learning_path[1].modules)) :
           AllSteps(learning_path[1].modules)[i].prerequisites_met
    /\ \E i \in 1..Len(AllSteps(learning_path[1].modules)) :
           ~AllSteps(learning_path[1].modules)[i].prerequisites_met
    /\ learning_path[1].confidence_score.n > 0
    /\ learning_path[1].confidence_score.n < learning_path[1].confidence_score.d


---------------------------------------------------------------------------
(* Properties of generate_multiple_paths and get_path_analytics.            *)

\* the goals of the caller's profile have different names
DistinctGoalNames ==
    \A i, j \in 1..Len(caller_profile.learning_goals) :
        caller_profile.learning_goals[i].goal_name
            = caller_profile.learning_goals[j].goal_name => i = j

\* C5: in the list generate_multiple_paths returns, the path of a goal with
\* a lower priority number comes before the path of a goal with a higher
\* one (priority 1 before priority 2) whatever their confidence scores, and
\* of two paths whose goals have the same priority the one with the higher
\* confidence_score comes first.  Stated for profiles whose goals have
\* different names, where the goal of a path is not in doubt.
C5_LowerPriorityNumberFirst ==
    (paths # <<>> /\ DistinctGoalNames) =>
        \A i, j \in 1..Len(paths[1]) :
            i < j =>
                LET pi == GoalPriority(caller_profile.learning_goals, paths[1][i].goal_skill)
                    pj == GoalPriority(caller_profile.learning_goals, paths[1][j].goal_skill)
                IN  /\ pi <= pj
                    /\ pi = pj => FracLeq(paths[1][j].confidence_score,
                                          paths[1][i].confidence_score)

\* C10: get_path_analytics leaves the path it is given as it was, and the
\* calls made on one path all return the same dictionary.
C10_AnalyticsPureAndRepeatable ==
    \A i \in 1..Len(analytics) :
        /\ learning_path = <<analytics[i].path>>
        /\ \A j \in 1..Len(analytics) : analytics[i].ret = analytics[j].ret

\* two calls on an assembled path of several modules, each returning the
\* full dictionary
C10_Witness ==
    /\ Len(analytics) = 2
    /\ Len(learning_path[1].modules) >= 2
    /\ analytics[1].ret # EmptyDict
    /\ analytics[2].ret.total_modules = Len(learning_path[1].modules)
    /\ analytics[2].ret.total_resources >= 3

---------------------------------------------------------------------------
(* Properties of get_user_profile.                                          *)

\* the learning style is one of valid_styles, in any case of letters
StyleAllowed(style) == In(lower(style), LowerAll(valid_styles))

\* what the claim lists, read on a returned profile
ValidatedProfile(p) ==
    /\ strip(p.name) # ""
    /\ Contains("@", p.email)
    /\ Len(p.current_skills) >= 1
    /\ Len(p.learning_goals) >= 1
    /\ \A i \in 1..Len(p.current_skills) :
           /\ p.current_skills[i].confidence_score \in 1..10
           /\ FloatLeq(Float(0), p.current_skills[i].years_experience)
    /\ \A i \in 1..Len(p.learning_goals) :
           /\ p.learning_goals[i].priority \in 1..5
           /\ p.learning_goals[i].timeline_months \in 1..60
    /\ StyleAllowed(p.preferred_learning_style)
    /\ p.time_commitment_hours_per_week > 0
    /\ p.budget_usd = <<>> \/ FloatLeq(Float(0), p.budget_usd[1])

\* the skills and goals of the profile are those of the input, in its order
InInputOrder(p, request) ==
    /\ Len(p.current_skills) = Len(request.current_skills_input)
    /\ \A i \in 1..Len(p.current_skills) :
           p.current_skills[i].skill_name =
               strip(get(request.current_skills_input[i], "skill_name", ""))
    /\ Len(p.learning_goals) = Len(request.learning_goals_input)
    /\ \A i \in 1..Len(p.learning_goals) :
           p.learning_goals[i].goal_name =
               strip(get(request.learning_goals_input[i], "goal_name", ""))

\* the raw input violates one of the conditions the claim lists, a missing
\* key standing for its default
RawInputViolates(request) ==
    \/ ~Truthy(request.name) \/ strip(request.name) = ""
    \/ ~Truthy(request.email) \/ ~Contains("@", request.email)
    \/ request.current_skills_input = <<>>
    \/ request.learning_goals_input = <<>>
    \/ \E i \in 1..Len(request.current_skills_input) :
           LET skill_data == request.current_skills_input[i]
           IN  \/ ~FloatLeq(Float(10), get(skill_data, "confidence_score", Float(50)))
               \/ ~FloatLeq(get(skill_data, "confidence_score", Float(50)), Float(100))
               \/ ~FloatLeq(Float(0), get(skill_data, "years_experience", Float(10)))
    \/ \E i \in 1..Len(request.learning_goals_input) :
           LET goal_data == request.learning_goals_input[i]
           IN  \/ get(goal_data, "priority", 3) \notin 1..5
               \/ get(goal_data, "timeline_months", 6) \notin 1..60
    \/ /\ Truthy(request.preferred_learning_style)
       /\ ~StyleAllowed(request.preferred_learning_style)
    \/ request.time_commitment_hours_per_week = <<>>
    \/ request.time_commitment_hours_per_week[1] <= 0
    \/ /\ request.budget_usd # <<>>
       /\ ~FloatLeq(Float(0), request.budget_usd[1])

\* C11: non-interactive get_user_profile raises ValueError or returns a
\* profile with a non-blank name, an email holding "@", at least one skill
\* and one goal in input order, every confidence_score in 1..10, every
\* years_experience >= 0, every priority in 1..5, every timeline_months in
\* 1..60, an allowed learning style, weekly hours > 0 and a budget that is
\* None or >= 0; it raises whenever the raw input violates one of these, so
\* that no partially validated profile is returned.
C11_ProfileValidatedOrValueError ==
    pc = "get_user_profile" =>
        /\ ~profile_result.raised =>
               /\ ValidatedProfile(profile_result.ret[1])
               /\ InInputOrder(profile_result.ret[1], profile_request)
        /\ RawInputViolates(profile_request) => profile_result.raised

---------------------------------------------------------------------------
(* Properties of the error handlers.                                        *)

\* the positions of the goals whose generation did not fail in the last call
SurvivingGoals ==
    {i \in 1..Len(caller_profile.learning_goals) : i \notin failed_goals}

\* C12: generate_multiple_paths returns one path for every goal whose
\* generation did not fail, the path generate_learning_path gives for that
\* goal, whatever happened to the other goals; the list is empty only when
\* the profile has no goal or every goal failed.
C12_OnePathPerGoalThatDidNotFail ==
    pc = "generate_multiple_paths" =>
        /\ Len(paths[1]) = Cardinality(SurvivingGoals)
        /\ \A i \in SurvivingGoals :
               In(generate_learning_path(openai_api_key, EmptyDict, caller_profile,
                                         caller_profile.learning_goals[i]).ret,
                  paths[1])
        /\ \A i \in SurvivingGoals :
               Cardinality({j \in 1..Len(paths[1]) :
                   paths[1][j].goal_skill = caller_profile.learning_goals[i].goal_name})
               = Cardinality({k \in SurvivingGoals :
                   caller_profile.learning_goals[k].goal_name
                       = caller_profile.learning_goals[i].goal_name})
        /\ paths[1] = <<>> <=> SurvivingGoals = {}

\* a call in which one of two goals failed and the path of the other was
\* returned
C12_Witness ==
    /\ pc = "generate_multiple_paths"
    /\ Len(caller_profile.learning_goals) = 2
    /\ Cardinality(failed_goals) = 1
    /\ Len(paths[1]) = 1

\* an internal failure of generate_learning_path: with 0 weekly hours the
\* divisions of module building and of the completion time raise
\* ZeroDivisionError
InternalFailure == caller_profile.time_commitment_hours_per_week = 0

C14_AnalyticsFailureGivesEmptyMap ==
    \A i \in 1..Len(analytics) :
        analytics[i].path.estimated_completion_months = 0
            => analytics[i].ret = EmptyDict

\* a call on a path with modules and 0 months that returned the empty map,
\* after a call that did so as well
C14_Witness ==
    /\ Len(analytics) = 2
    /\ analytics[2].path.estimated_completion_months = 0
    /\ analytics[2].path.modules # <<>>
    /\ analytics[2].path.total_estimated_hours > 0
    /\ analytics[2].ret = EmptyDict

\* the except clause of fetch_resources ran in call i
FetchFailed(i) == In("except", fetches[i].stages)

\* C15: a fetch_resources call in which the pipeline fails still returns,
\* and returns the fixed list of two entries: the "Getting Started"
\* web-search entry, then the "Documentation" entry.
C15_FailureGivesTwoEntryFallback ==
    \A i \in 1..Len(fetches) :
        FetchFailed(i) =>
            /\ Len(fetches[i].resources) = 2
            /\ fetches[i].resources[1].title
                   = "Learn " \o fetches[i].topic \o " - Getting Started"
            /\ fetches[i].resources[1].provider = "Web Search"
            /\ fetches[i].resources[2].title = fetches[i].topic \o " Documentation"
            /\ fetches[i].resources[2].type = "documentation"

\* a call that failed in the ranking, after all three generation stages,
\* on a fetcher that had answered another query before
C15_Witness ==
    /\ Len(fetches) = 2
    /\ ~FetchFailed(1)
    /\ fetches[2].stages = <<"curated", "scrape", "ai", "rank", "except">>
    /\ Len(fetches[2].resources) = 2
    /\ DOMAIN cache = {CacheKey(fetches[1].topic, fetches[1].difficulty,
                                fetches[1].resource_type)}

---------------------------------------------------------------------------
(* The frame of the path engine.                                            *)

\* C16: a call of generate_learning_path or generate_multiple_paths leaves
\* the caller's UserProfile (skills, goals and their order), the
\* LearningGoal, the skill trees and the resource catalog as they were; of
\* the engine's state only the fetcher's cache may change.
C16_CallsChangeOnlyTheCache ==
    [][/\ caller_profile' = caller_profile
       /\ caller_goal' = caller_goal
       /\ engine_skill_trees' = engine_skill_trees
       /\ engine_resource_db' = engine_resource_db
       /\ openai_api_key' = openai_api_key]_vars

\* both calls were made on a profile with a skill and two goals of
\* different priorities, and the cache was filled
C16_Witness ==
    /\ pc = "generate_multiple_paths"
    /\ learning_path # <<>>
    /\ paths # <<>>
    /\ failed_goals = {}
    /\ cache # EmptyDict
    /\ caller_profile.current_skills # <<>>
    /\ Len(caller_profile.learning_goals) = 2
    /\ caller_profile.learning_goals[1].priority < caller_profile.learning_goals[2].priority
    /\ Len(paths[1]) = 2

\* The target the search loop of get_learning_path_for_goal finds for the
\* state's goal in the state's skill_trees.
SearchedTarget == FindTarget(engine_skill_trees, goal_skill, 1)

SearchRaised == SearchedTarget.tree = KeyError

TargetKnown == SearchedTarget.tree \notin {None, KeyError}

\* The locals of _build_path_to_module when the walk from the target ends.
WalkEnd ==
    add_prerequisites(TreeModules(engine_skill_trees, SearchedTarget.tree),
                      SearchedTarget.module, current_skills, WalkStart)

WalkRaised == TargetKnown /\ WalkEnd.raised

\* C17 (as amended): when the traversal raises, get_learning_path_for_goal
\* returns a single-element path: the target module name when the walk from
\* the known target raised, and "Basic <goal_skill> Learning" when the search
\* raised before a target was known.
C17_TraversalFailureGivesSingleElementPath ==
    pc = "get_learning_path_for_goal" =>
        /\ WalkRaised => skill_path = <<SearchedTarget.module>>
        /\ SearchRaised => skill_path = <<"Basic " \o goal_skill \o " Learning">>

\* C17 as stated: the element is goal_skill itself when the target module is
\* not known at the point of failure.
C17_AsStated ==
    pc = "get_learning_path_for_goal" =>
        /\ WalkRaised => skill_path = <<SearchedTarget.module>>
        /\ SearchRaised => skill_path = <<goal_skill>>

\* The walk had put a module on the path when a prerequisite without
\* "skills" raised, and the call returned the target alone.
C17_Witness ==
    /\ pc = "get_learning_path_for_goal"
    /\ WalkRaised
    /\ WalkEnd.path # <<>>
    /\ skill_path = <<"A">>

\* The search raised before reaching the module that teaches the goal.
C17_SearchWitness ==
    /\ pc = "get_learning_path_for_goal"
    /\ SearchRaised
    /\ goal_skill = "c"
    /\ skill_path = <<"Basic c Learning">>

\* the module m of tree t is the first, in the enumeration order of the
\* table, whose skills list holds goal_skill exactly
FirstMatch(t, m) ==
    /\ In(goal_skill, skill_trees[t].modules[m].skills)
    /\ \A t2 \in 1..t : \A m2 \in 1..Len(skill_trees[t2].modules) :
           (t2 < t \/ (t2 = t /\ m2 < m)) =>
               ~In(goal_skill, skill_trees[t2].modules[m2].skills)

TreeModuleNames(t) ==
    {skill_trees[t].modules[m].name : m \in 1..Len(skill_trees[t].modules)}

\* C18: the returned path ends with the first module, in the order Data
\* Science, Web Development, Cloud Computing and the declaration order of the
\* modules, whose skills hold goal_skill exactly, and every module of the
\* path is of that module's tree: "Docker" resolves to MLOps of Data Science
\* and "Kubernetes" to DevOps of Web Development; "machine learning" matches
\* no module because matching is case-sensitive.
C18_FirstMatchInEnumerationOrder ==
    TreeReturned =>
        /\ \A t \in 1..Len(skill_trees) : \A m \in 1..Len(skill_trees[t].modules) :
               FirstMatch(t, m) =>
                   /\ skill_path[Len(skill_path)] = skill_trees[t].modules[m].name
                   /\ Range(skill_path) \subseteq TreeModuleNames(t)
        /\ goal_skill = "Docker" =>
               /\ skill_path[Len(skill_path)] = "MLOps"
               /\ Range(skill_path) \subseteq TreeModuleNames(1)
        /\ goal_skill = "Kubernetes" =>
               /\ skill_path[Len(skill_path)] = "DevOps"
               /\ Range(skill_path) \subseteq TreeModuleNames(2)
        /\ goal_skill = "machine learning" =>
               skill_path = <<"Custom Learning Path for machine learning">>

C18_Witness ==
    /\ TreeReturned
    /\ goal_skill = "Docker"
    /\ current_skills = <<"Python">>
    /\ skill_path = <<"Data Analysis Basics", "Statistics Fundamentals",
                      "Machine Learning Basics", "MLOps">>

NoDuplicates(list) ==
    \A i \in 1..Len(list) : \A j \in 1..Len(list) : list[i] = list[j] => i = j

\* the number of prerequisite names the modules from the i-th on list
RECURSIVE PrerequisiteEntries(_, _)
PrerequisiteEntries(modules, i) ==
    IF i > Len(modules) THEN 0
    ELSE Len(get(modules[i], "prerequisites", <<>>)) + PrerequisiteEntries(modules, i + 1)

\* C19: on every prerequisite graph of a tree, prerequisite cycles and
\* prerequisite names of no module included, the call returns, the walk makes
\* at most one invocation for the target and one per prerequisite entry of
\* the tree, it expands no module twice, and the returned path holds no
\* module name twice.
C19_WalkTerminatesWithoutDuplicates ==
    TreeReturned =>
        /\ NoDuplicates(skill_path)
        /\ TargetKnown =>
               LET modules == engine_skill_trees[1].modules
               IN  /\ WalkEnd.calls <= 1 + PrerequisiteEntries(modules, 1)
                   /\ Cardinality(WalkEnd.visited) <= Len(modules)
                   /\ NoDuplicates(WalkEnd.path)

\* A and B require each other and A names the unknown X: the walk from A
\* returns C, B, A.
C19_Witness ==
    /\ TreeReturned
    /\ goal_skill = "a"
    /\ current_skills = <<>>
    /\ engine_skill_trees[1].modules[1] = Node("A", <<"a">>, <<"B", "X">>, <<>>)
    /\ engine_skill_trees[1].modules[2] = Node("B", <<"b">>, <<"A", "C">>, <<>>)
    /\ engine_skill_trees[1].modules[3] = Node("C", <<"c">>, <<>>, <<>>)
    /\ skill_path = <<"C", "B", "A">>

\* the i-th call found no entry for its key in the cache
CacheMiss(i) ==
    \A j \in 1..(i - 1) :
        CacheKey(fetches[j].topic, fetches[j].difficulty, fetches[j].resource_type)
            # CacheKey(fetches[i].topic, fetches[i].difficulty, fetches[i].resource_type)

IsGenerationStage(stage) == stage \in {"curated", "scrape", "ai"}

\* C20: a call that misses the cache runs the curated lookup, then the
\* synthetic stage if the curated lookup gave fewer than 3 candidates, then
\* the AI stage if and only if a credential is configured and fewer than 3
\* candidates were collected by then, each at most once and in that order;
\* without a credential the AI stage does not run and the call returns the
\* ranked list, which it has cached.
C20_StagesRunInOrderAtMostOnce ==
    \A i \in 1..Len(fetches) :
        CacheMiss(i) =>
            LET Staged(before_synthetic, synthetic) ==
                    LET before_ai ==
                            before_synthetic
                                + (IF before_synthetic < 3 THEN synthetic ELSE 0)
                    IN  SelectSeq(fetches[i].stages, IsGenerationStage)
                            = <<"curated">>
                                  \o (IF before_synthetic < 3 THEN <<"scrape">> ELSE <<>>)
                                  \o (IF Truthy(openai_api_key) /\ before_ai < 3
                                      THEN <<"ai">> ELSE <<>>)
            IN  /\ Staged(Len(_get_curated_resources(fetches[i].topic,
                                                     fetches[i].difficulty)),
                          Len(_scrape_resources(fetches[i].topic,
                                                fetches[i].difficulty)))
                /\ ~Truthy(openai_api_key) =>
                       /\ ~In("ai", fetches[i].stages)
                       /\ fetches[i].stages[Len(fetches[i].stages)] = "rank"
                       /\ Len(fetches[i].resources) \in 1..3
                       /\ cache[CacheKey(fetches[i].topic, fetches[i].difficulty,
                                         fetches[i].resource_type)]
                              = fetches[i].resources

\* with a credential: a miss with one candidate before the AI stage, which
\* ran, and a miss with three candidates before it, which did not
C20_Witness ==
    /\ Len(fetches) = 2
    /\ openai_api_key = "sk-test"
    /\ fetches[1].topic = "Rust"
    /\ fetches[1].stages = <<"curated", "scrape", "ai", "rank">>
    /\ fetches[2].topic = "Python" /\ fetches[2].difficulty = "beginner"
    /\ fetches[2].stages = <<"curated", "scrape", "rank">>
    /\ Len(fetches[2].resources) = 3

\* without a credential: a miss that ends with two candidates and no AI
\* stage
C20_NoCredentialWitness ==
    /\ Len(fetches) >= 1
    /\ openai_api_key = None
    /\ fetches[1].stages = <<"curated", "scrape", "rank">>
    /\ Len(fetches[1].resources) < 3

---------------------------------------------------------------------------
(* Properties of the ranking.                                               *)

Ranked == pc = "_rank_and_filter_resources"

\* 0.7 * rating, + 1.0 for the topic in the title, + 0.5 for the topic in the
\* description, in hundredths
ClaimedScore(resource, topic) ==
    7 * resource.rating
        + (IF Contains(lower(topic), lower(resource.title)) THEN 100 ELSE 0)
        + (IF Contains(lower(topic), lower(resource.description)) THEN 50 ELSE 0)

\* the first candidates of their url
FirstOccurrences(candidates) ==
    {i \in 1..Len(candidates) :
         \A j \in 1..(i - 1) : candidates[j].url # candidates[i].url}

\* C21: the list the ranking step of fetch_resources gives has at most 3
\* entries, one per url and as many as there are urls up to 3, each the
\* first candidate of its url, in non-increasing order of 0.7 * rating + 1.0
\* (topic in the title) + 0.5 (topic in the description), and no first
\* candidate of a url left out has a strictly higher score than a returned
\* one.
C21_RankedUniqueTopThree ==
    Ranked =>
        LET candidates == rank_request.resources
            topic == rank_request.topic
            first == FirstOccurrences(candidates)
        IN  /\ Len(rank_result) <= 3
            /\ Len(rank_result) = Min(3, Cardinality(first))
            /\ \A a \in 1..Len(rank_result) : \A b \in 1..Len(rank_result) :
                   rank_result[a].url = rank_result[b].url => a = b
            /\ \A a \in 1..Len(rank_result) :
                   \E i \in first : candidates[i] = rank_result[a]
            /\ \A a \in 1..(Len(rank_result) - 1) :
                   ClaimedScore(rank_result[a], topic)
                       >= ClaimedScore(rank_result[a + 1], topic)
            /\ \A i \in first :
                   (\A a \in 1..Len(rank_result) : rank_result[a] # candidates[i]) =>
                       \A a \in 1..Len(rank_result) :
                           ClaimedScore(candidates[i], topic)
                               <= ClaimedScore(rank_result[a], topic)

\* five candidates of four urls, the url given twice with the higher rated
\* entry second: the first entry of that url is returned, first, and the
\* candidate of the lowest score is dropped
C21_Witness ==
    /\ Ranked
    /\ rank_request.topic = "Python"
    /\ Len(rank_request.resources) = 5
    /\ Cardinality(FirstOccurrences(rank_request.resources)) = 4
    /\ rank_request.resources[1].title = "Systems Programming"
    /\ rank_request.resources[2].title = "Python for Everybody"
    /\ rank_request.resources[3].title = "Automate the Boring Stuff"
    /\ Len(rank_result) = 3
    /\ rank_result[1].title = "Python for Everybody"
    /\ \A a \in 1..3 : rank_result[a].title # "Systems Programming"

---------------------------------------------------------------------------
(* Properties of calculate_readiness_score.                                 *)

ReadinessReturned == pc = "calculate_readiness_score"

\* the positions of the user's skills whose name is prereq in any case
NameMatches(skills, prereq) ==
    {i \in 1..Len(skills) : lower(skills[i].skill_name) = lower(prereq)}

\* 0.0 for a prerequisite the user lacks, (level/4 + confidence/10) / 2 of
\* the first match for one the user has
ClaimedContribution(skills, prereq) ==
    IF NameMatches(skills, prereq) = {} THEN Frac(0, 1)
    ELSE LET first == CHOOSE i \in NameMatches(skills, prereq) :
                          \A j \in NameMatches(skills, prereq) : i <= j
         IN  FracDivInt(FracAdd(Frac(skills[first].level, 4),
                                Frac(skills[first].confidence_score, 10)), 2)

\* C22: calculate_readiness_score returns 0.8 for a target without declared
\* prerequisites, and otherwise the mean over the prerequisites of 0.0 for
\* one the user lacks and (level/4 + confidence/10)/2 of the first
\* case-insensitive name match for one the user has; the result is in [0, 1].
C22_ReadinessIsMeanOverPrerequisites ==
    ReadinessReturned =>
        LET skills == readiness_request.user_profile.current_skills
            prerequisites == _get_prerequisites(readiness_request.target_skill)
        IN  /\ prerequisites = <<>> => readiness_result = Frac(4, 5)
            /\ prerequisites # <<>> =>
                   readiness_result
                       = FracDivInt(FracSum([k \in 1..Len(prerequisites) |->
                                        ClaimedContribution(skills, prerequisites[k])]),
                                    Len(prerequisites))
            /\ readiness_result.n >= 0
            /\ readiness_result.n <= readiness_result.d

\* "Machine Learning" for a user who lists python twice, the beginner entry
\* first, and has Statistics but not Data Analysis:
\* ((1/4 + 1/10)/2 + (4/4 + 10/10)/2 + 0) / 3 = 47/120
C22_Witness ==
    /\ ReadinessReturned
    /\ readiness_request.target_skill = "Machine Learning"
    /\ readiness_request.user_profile.current_skills
           = <<UserSkill("python", 1, 5, 1), UserSkill("Python", 4, 80, 10),
               UserSkill("Statistics", 4, 50, 10)>>
    /\ readiness_result = Frac(47, 120)

---------------------------------------------------------------------------
(* Properties of _calculate_resource_priority.                              *)

PriorityReturned == pc = "_calculate_resource_priority"

\* the computation raises: the resource has no rating
PriorityFails == "rating" \notin DOMAIN priority_request.resource[1]

\* the terms of the score other than the cost term
ClaimedOtherTerms(resource, user_profile, goal) ==
    FracSum(<< Frac(2 * resource.rating, 10),
               Frac(Max(0, 5 - Abs(resource.difficulty - goal.target_skill_level)), 1),
               Frac(IF resource.estimated_hours
                           <= user_profile.time_commitment_hours_per_week * 4
                    THEN 2 ELSE 0, 1),
               Frac(type_scores(resource.resource_type), 10) >>)

\* max(0, 3 - 3 * cost / budget) for a budget that is not 0
ClaimedBudgetTerm(cost, budget) ==
    IF 3 * budget > 3 * cost THEN Frac(3 * budget - 3 * cost, budget) ELSE Frac(0, 1)

\* C23 (as amended): the priority score is 2 * rating + max(0, 5 - |resource
\* difficulty - target level|) + cost term + (2 if hours <= weekly hours * 4)
\* + type bonus, where the cost term is 3 for a free resource, otherwise
\* max(0, 3 - 3 * cost / budget) when the budget is set and not 0, and 0 when
\* the budget is None or 0; a computation that fails gives 3.0.
C23_PriorityScore ==
    PriorityReturned =>
        LET resource == priority_request.resource[1]
            user_profile == priority_request.user_profile
            budget == user_profile.budget_usd
            Total(cost_term) ==
                FracAdd(ClaimedOtherTerms(resource, user_profile, priority_request.goal),
                        cost_term)
        IN  IF PriorityFails THEN priority_result = Frac(3, 1)
            ELSE IF resource.cost_usd = 0 THEN priority_result = Total(Frac(3, 1))
            ELSE IF budget # <<>> /\ budget[1] # 0
            THEN priority_result = Total(ClaimedBudgetTerm(resource.cost_usd, budget[1]))
            ELSE priority_result = Total(Frac(0, 1))

\* C23 as stated: every budget that is not None takes the branch
\* 3 - 3 * cost / budget, so with a budget of 0 the division of a paid
\* resource's cost fails and the score is the flat 3.0.
C23_AsStated ==
    PriorityReturned =>
        LET resource == priority_request.resource[1]
            user_profile == priority_request.user_profile
            budget == user_profile.budget_usd
            Total(cost_term) ==
                FracAdd(ClaimedOtherTerms(resource, user_profile, priority_request.goal),
                        cost_term)
        IN  IF PriorityFails THEN priority_result = Frac(3, 1)
            ELSE IF resource.cost_usd = 0 THEN priority_result = Total(Frac(3, 1))
            ELSE IF budget # <<>> /\ budget[1] = 0 THEN priority_result = Frac(3, 1)
            ELSE IF budget # <<>>
            THEN priority_result = Total(ClaimedBudgetTerm(resource.cost_usd, budget[1]))
            ELSE priority_result = Total(Frac(0, 1))

\* the 89.99 course at the goal's level, 40 hours against 10 a week, budget
\* 300.00: 9.0 + 5 + (3 - 3 * 89.99 / 300) + 2 + 2 = 20.1001
C23_Witness ==
    /\ PriorityReturned
    /\ priority_request.resource[1].id = "ml_course_1"
    /\ priority_request.goal.target_skill_level = 2
    /\ priority_request.user_profile.time_commitment_hours_per_week = 10
    /\ priority_request.user_profile.budget_usd = <<30000>>
    /\ priority_result = Frac(201001, 10000)

\* a paid resource and a budget of 0: the cost term is 0
C23_ZeroBudgetWitness ==
    /\ PriorityReturned
    /\ priority_request.resource[1].id = "ml_course_1"
    /\ priority_request.goal.target_skill_level = 2
    /\ priority_request.user_profile.time_commitment_hours_per_week = 10
    /\ priority_request.user_profile.budget_usd = <<0>>
    /\ priority_result = Frac(18, 1)

---------------------------------------------------------------------------
(* Properties of the modules generate_learning_path builds.                 *)

\* the path was assembled by the body of generate_learning_path, not by its
\* except clause
NormalPath == PathReturned /\ caller_profile.time_commitment_hours_per_week > 0

\* the first skill the tree lists for the module, or the module's name
PrimarySkillOf(module_name) ==
    IF _get_module_skills(module_name) # <<>>
    THEN _get_module_skills(module_name)[1] ELSE module_name

\* what fetch_resources gives the caller's engine for the module's first
\* skill at the goal's level
FetchedFor(module_name) ==
    fetch_resources(openai_api_key, EmptyDict, PrimarySkillOf(module_name),
                    difficulty_map(caller_goal.target_skill_level), "mixed").ret

TeachesSkill(resource, skill) ==
    \E k \in 1..Len(resource.skills_taught) :
        lower(resource.skills_taught[k]) = lower(skill)

\* the catalog resources, in catalog order, that teach the module's first
\* skill at a difficulty of at most the target level + 1
CatalogFor(module_name) ==
    LET Suits(resource) ==
            /\ TeachesSkill(resource, PrimarySkillOf(module_name))
            /\ resource.difficulty <= caller_goal.target_skill_level + 1
    IN  SelectSeq(resource_db, Suits)

\* the resource of a step is the one built from a fetched descriptor
FromFetched(resource, descriptor) ==
    /\ resource.title = descriptor.title
    /\ resource.url = descriptor.url
    /\ resource.provider = descriptor.provider
    /\ resource.estimated_hours = descriptor.estimated_hours
    /\ resource.rating = descriptor.rating

\* C24: the steps of a normally built module are, in order, the first 3 of
\* the fetched resources for the module's first skill followed by the catalog
\* resources that teach that skill (in any case) at a difficulty <= target
\* level + 1; a catalog resource is a step only when fewer than 3 resources
\* were fetched, and never with a difficulty > target level + 1.
C24_StepsAreFirstThreeOfFetchedThenCatalog ==
    NormalPath =>
        \A m \in 1..Len(learning_path[1].modules) :
            LET module == learning_path[1].modules[m]
                Checked(fetched, catalog) ==
                    /\ Len(module.steps) = Min(3, Len(fetched) + Len(catalog))
                    /\ \A k \in 1..Len(module.steps) :
                           /\ module.steps[k].step_number = k
                           /\ IF k <= Len(fetched)
                              THEN FromFetched(module.steps[k].resource, fetched[k])
                              ELSE /\ module.steps[k].resource = catalog[k - Len(fetched)]
                                   /\ Len(fetched) < 3
                                   /\ module.steps[k].resource.difficulty
                                          <= caller_goal.target_skill_level + 1
            IN  Checked(FetchedFor(module.module_name), CatalogFor(module.module_name))

\* a beginner goal whose module on Machine Learning has two fetched resources
\* and, third, the catalog course of difficulty 2; the catalog's Deep Learning
\* specialization, of difficulty 3, teaches the skill too and is left out
C24_Witness ==
    /\ NormalPath
    /\ caller_goal.target_skill_level = 1
    /\ \E m \in 1..Len(learning_path[1].modules) :
           LET module == learning_path[1].modules[m]
           IN  /\ PrimarySkillOf(module.module_name) = "Machine Learning"
               /\ Len(FetchedFor(module.module_name)) = 2
               /\ Len(module.steps) = 3
               /\ module.steps[3].resource.id = "ml_course_1"
               /\ \E r \in Range(resource_db) :
                      /\ r.id = "deep_learning_spec"
                      /\ TeachesSkill(r, "Machine Learning")
                      /\ r.difficulty > caller_goal.target_skill_level + 1

\* the hours of every step of the returned path, added up
PathStepHours ==
    LET modules == learning_path[1].modules
        RECURSIVE Upto(_)
        Upto(m) == IF m = 0 THEN 0
                   ELSE Upto(m - 1)
                        + SumSeq([k \in 1..Len(modules[m].steps) |->
                                     modules[m].steps[k].resource.estimated_hours])
    IN  Upto(Len(modules))

\* the hours of one month at the profile's weekly commitment
MonthCapacity == caller_profile.time_commitment_hours_per_week * 4

\* C25: for a normally assembled path with positive weekly hours,
\* estimated_completion_months is max(1, floor(total hours / (weekly hours * 4))):
\* it is at least 1, it is exactly 1 when the total is below one month's
\* capacity, and otherwise it is the number of whole months the total fills
\* (months * capacity <= total < (months + 1) * capacity).
C25_MonthsAreFloorThenClamp ==
    NormalPath =>
        LET months == learning_path[1].estimated_completion_months
            total == learning_path[1].total_estimated_hours
        IN  /\ total = PathStepHours
            /\ months >= 1
            /\ total < MonthCapacity => months = 1
            /\ total >= MonthCapacity =>
                   /\ months * MonthCapacity <= total
                   /\ total < (months + 1) * MonthCapacity

\* a path whose hours do not fill one month and that gets 1 month
C25_Witness ==
    /\ NormalPath
    /\ learning_path[1].total_estimated_hours > 0
    /\ learning_path[1].total_estimated_hours < MonthCapacity
    /\ learning_path[1].estimated_completion_months = 1

\* a path whose hours fill two months and part of a third: 2 months
C25_TruncationWitness ==
    /\ NormalPath
    /\ learning_path[1].total_estimated_hours > 2 * MonthCapacity
    /\ learning_path[1].total_estimated_hours < 3 * MonthCapacity
    /\ learning_path[1].estimated_completion_months = 2

\* the module names of the returned path, in order
ModuleNames ==
    [i \in 1..Len(learning_path[1].modules) |-> learning_path[1].modules[i].module_name]

\* C26 (as amended): every returned path has as many modules as
\* skill_tree_path has entries; a normally assembled path has
\* modules[i].module_name = skill_tree_path[i] for every i, and the whole-path
\* fallback has the one module "Learn <goal_name>" next to the
\* skill_tree_path [goal_name].
C26_ModulesFollowSkillTreePath ==
    PathReturned =>
        /\ Len(learning_path[1].modules) = Len(learning_path[1].skill_tree_path)
        /\ IF IsFallbackPath(learning_path[1])
           THEN /\ ModuleNames = <<"Learn " \o caller_goal.goal_name>>
                /\ learning_path[1].skill_tree_path = <<caller_goal.goal_name>>
           ELSE /\ ModuleNames = learning_path[1].skill_tree_path
                /\ learning_path[1].skill_tree_path
                       = get_learning_path_for_goal(
                             skill_trees, caller_goal.goal_name,
                             [i \in 1..Len(caller_profile.current_skills) |->
                                 caller_profile.current_skills[i].skill_name])

\* C26 as stated: in every returned path the module names are skill_tree_path
C26_AsStated ==
    PathReturned =>
        /\ Len(learning_path[1].modules) = Len(learning_path[1].skill_tree_path)
        /\ \A i \in 1..Len(learning_path[1].modules) :
               learning_path[1].modules[i].module_name
                   = learning_path[1].skill_tree_path[i]

\* a normally assembled path of three modules or more
C26_Witness ==
    /\ PathReturned
    /\ ~IsFallbackPath(learning_path[1])
    /\ Len(learning_path[1].modules) >= 3
    /\ ModuleNames = learning_path[1].skill_tree_path

\* the whole-path fallback: the module and the skill_tree_path entry differ
C26_FallbackWitness ==
    /\ PathReturned
    /\ IsFallbackPath(learning_path[1])
    /\ ModuleNames[1] # learning_path[1].skill_tree_path[1]

\* the query of the i-th fetch_resources call
Triple(i) == <<fetches[i].topic, fetches[i].difficulty, fetches[i].resource_type>>

\* the i-th call was answered from the cache
CacheHit(i) == fetches[i].stages = <<>>

\* C27: the cache is keyed by the triple (topic, difficulty, type): a call
\* answered from the cache follows a generating call of the same triple, and
\* what it returns is what its own triple generates, never the result stored
\* for a different triple, also when a topic or difficulty contains "_".
C27_CacheKeyedByTriple ==
    \A i \in 1..Len(fetches) :
        CacheHit(i) =>
            /\ \E j \in 1..(i - 1) : Triple(j) = Triple(i) /\ ~CacheHit(j)
            /\ fetches[i].resources
                   = fetch_resources(openai_api_key, EmptyDict, fetches[i].topic,
                                     fetches[i].difficulty,
                                     fetches[i].resource_type).ret

\* C28: across fetch_resources calls on one fetcher the cache only grows:
\* every entry keeps its key and its value, and a call that ends in the
\* failure fallback leaves the cache as it was, so the fallback list is not
\* stored.
C28_CacheOnlyGrows ==
    [][/\ \A k \in DOMAIN cache : k \in DOMAIN cache' /\ cache'[k] = cache[k]
       /\ Len(fetches') = Len(fetches) + 1 =>
              LET call == fetches'[Len(fetches')]
              IN  call.stages # <<>> /\ call.stages[Len(call.stages)] = "except" =>
                      /\ cache' = cache
                      /\ call.resources = _get_fallback_resources(call.topic)
                      /\ Len(call.resources) = 2]_vars

\* a stored entry survives a later call that fails on another query
C28_Witness ==
    /\ Len(fetches) = 2
    /\ ~CacheHit(1) /\ ~FetchFailed(1)
    /\ ~CacheHit(2) /\ FetchFailed(2)
    /\ Triple(1) # Triple(2)
    /\ DOMAIN cache = {CacheKey(fetches[1].topic, fetches[1].difficulty,
                                fetches[1].resource_type)}
    /\ cache[CacheKey(fetches[1].topic, fetches[1].difficulty,
                      fetches[1].resource_type)] = fetches[1].resources

\* a failed call followed by a normal call of the same query, which
\* generates and stores: the failure had stored nothing
C28_RetryWitness ==
    /\ Len(fetches) = 2
    /\ FetchFailed(1)
    /\ Triple(1) = Triple(2)
    /\ ~CacheHit(2) /\ ~FetchFailed(2)
    /\ Cardinality(DOMAIN cache) = 1

\* the modules of the tree the target was found in
TargetTree == TreeModules(engine_skill_trees, SearchedTarget.tree)

\* the user has a skill the module teaches: some entry of its skills list
\* is, character for character, an entry of current_skills
UserHasSkillOf(module_name) ==
    LET module_info == ModuleInfo(TargetTree, module_name)
    IN  \E i \in 1..Len(module_info.skills), k \in 1..Len(current_skills) :
            module_info.skills[i] = current_skills[k]

\* the modules of the tree named as prerequisites of module_name whose
\* skills the user has none of
NeededPrerequisites(module_name) ==
    {p \in Range(get(ModuleInfo(TargetTree, module_name), "prerequisites", <<>>)) :
        InTree(TargetTree, p) /\ ~UserHasSkillOf(p)}

RECURSIVE NeededFrom(_)
\* the modules reached from the set reached by prerequisite links that pass
\* through no module the user has a skill of
NeededFrom(reached) ==
    LET more == reached \cup UNION {NeededPrerequisites(m) : m \in reached}
    IN  IF more = reached THEN reached ELSE NeededFrom(more)

\* C29: for a goal found in a tree, the returned path ends with the target
\* module, no other module of it teaches a skill that occurs (exactly) in
\* current_skills, and its modules are the target and the prerequisites
\* reached from it without passing through a module the user has a skill
\* of: such a module is left out with every prerequisite reachable only
\* through it.
C29_HeldModulesOmittedWithTheirPrerequisites ==
    (pc = "get_learning_path_for_goal" /\ TargetKnown /\ ~WalkRaised) =>
        /\ skill_path # <<>>
        /\ skill_path[Len(skill_path)] = SearchedTarget.module
        /\ \A i \in 1..(Len(skill_path) - 1) : ~UserHasSkillOf(skill_path[i])
        /\ Range(skill_path) = IF UserHasSkillOf(SearchedTarget.module)
                               THEN {SearchedTarget.module}
                               ELSE NeededFrom({SearchedTarget.module})

\* the user has NumPy, one of the three skills of Data Analysis Basics: that
\* prerequisite of the target is left out, and with it Python Fundamentals,
\* which is reached only through it
C29_Witness ==
    /\ pc = "get_learning_path_for_goal"
    /\ goal_skill = "Machine Learning"
    /\ current_skills = <<"NumPy">>
    /\ UserHasSkillOf("Data Analysis Basics")
    /\ ~UserHasSkillOf("Python Fundamentals")
    /\ skill_path = <<"Statistics Fundamentals", "Machine Learning Basics">>

\* a skill that differs in case only does not leave the module out
C29_CaseWitness ==
    /\ pc = "get_learning_path_for_goal"
    /\ goal_skill = "Data Analysis"
    /\ current_skills = <<"python">>
    /\ skill_path = <<"Python Fundamentals", "Data Analysis Basics">>

\* the priority of the first goal of the profile named goal_name
FirstPriority(goal_name) ==
    LET goals == caller_profile.learning_goals
        named == {i \in 1..Len(goals) : goals[i].goal_name = goal_name}
    IN  goals[CHOOSE i \in named : \A k \in named : i <= k].priority

\* some goals of the profile share a name and differ in priority
DuplicateNames ==
    \E i, j \in 1..Len(caller_profile.learning_goals) :
        /\ i < j
        /\ caller_profile.learning_goals[i].goal_name
               = caller_profile.learning_goals[j].goal_name
        /\ caller_profile.learning_goals[i].priority
               # caller_profile.learning_goals[j].priority

\* C30: for a profile with equally named goals of different priorities,
\* generate_multiple_paths returns one path per goal (per goal whose
\* generation did not fail), as many for every name and target level as the
\* profile has such goals, and the list is ordered by the priority of the
\* first goal of the profile that has the path's name, highest number first,
\* and by descending confidence_score among equal ones.
C30_DuplicateNamesOrderedByFirstGoal ==
    (paths # <<>> /\ DuplicateNames) =>
        /\ Len(paths[1]) = Cardinality(SurvivingGoals)
        /\ \A g \in Range(caller_profile.learning_goals) :
               Cardinality({k \in 1..Len(paths[1]) :
                               /\ paths[1][k].goal_skill = g.goal_name
                               /\ paths[1][k].target_level = g.target_skill_level})
                 = Cardinality({i \in SurvivingGoals :
                                   /\ caller_profile.learning_goals[i].goal_name = g.goal_name
                                   /\ caller_profile.learning_goals[i].target_skill_level
                                          = g.target_skill_level})
        /\ \A i, j \in 1..Len(paths[1]) :
               i < j =>
                   /\ FirstPriority(paths[1][i].goal_skill)
                          >= FirstPriority(paths[1][j].goal_skill)
                   /\ FirstPriority(paths[1][i].goal_skill)
                          = FirstPriority(paths[1][j].goal_skill)
                      => FracLeq(paths[1][j].confidence_score,
                                 paths[1][i].confidence_score)

\* goals [Machine Learning to level 4 at priority 2, Machine Learning to
\* level 2 at priority 1]: the path of the second goal, of the higher
\* confidence, comes first although its own goal has the lower number
C30_Witness ==
    /\ paths # <<>>
    /\ failed_goals = {}
    /\ Len(caller_profile.learning_goals) = 2
    /\ caller_profile.learning_goals[1] = LearningGoal("Machine Learning", 4, 2, 6)
    /\ caller_profile.learning_goals[2] = LearningGoal("Machine Learning", 2, 1, 6)
    /\ Len(paths[1]) = 2
    /\ paths[1][1].target_level = 2
    /\ paths[1][2].target_level = 4
    /\ FracLess(paths[1][2].confidence_score, paths[1][1].confidence_score)

\* three goals, the first and the last named Machine Learning at priorities
\* 1 and 2, Python between them at priority 2: Python comes first and both
\* Machine Learning paths follow, the last goal's priority 2 counting for
\* nothing
C30_FirstGoalWitness ==
    /\ paths # <<>>
    /\ failed_goals = {}
    /\ Len(caller_profile.learning_goals) = 3
    /\ caller_profile.learning_goals[1].priority = 1
    /\ caller_profile.learning_goals[2].priority = 2
    /\ caller_profile.learning_goals[3].priority = 2
    /\ [k \in 1..3 |-> paths[1][k].goal_skill]
           = <<"Python", "Machine Learning", "Machine Learning">>
    /\ FracLess(paths[1][1].confidence_score, paths[1][2].confidence_score)

====
